---- MODULE Spec2Model ----
(***************************************************************************)
(* State-machine model of the CircuitVerse project loader                  *)
(* (data/load.js: rectifyObjectType, loadModule, removeBugNodes,           *)
(* loadScope, load) and of the subcircuit folder panel (folderPanel.js).   *)
(*                                                                         *)
(* The specifications share the variables below:                           *)
(*   SpecFolder     the folder panel's handlers acting on one scope        *)
(*   SpecTree       createFolderStructure applied to restored folder data  *)
(*   SpecRBN        the loop of removeBugNodes, one iteration per step     *)
(*   SpecRBNFair    SpecRBN with the loop's steps taken while enabled      *)
(*   SpecModule     loadModule applied to one element record               *)
(*   SpecLoad       load(data), one iteration of its loop per step         *)
(*   SpecLoadOrder  load(data) on projects whose scopes hold SubCircuits   *)
(*                  of each other or a corrupt record, in either order     *)
(*   SpecScope      loadScope(scope, data), one statement or loop item     *)
(*                  per step, run twice on the same document               *)
(*   SpecPanel      SpecFolder with drags of subcircuit items and with     *)
(*                  switches of the active scope                           *)
(*   SpecPanelFair  SpecPanel where every drag that began is ended         *)
(***************************************************************************)
EXTENDS Integers, Sequences, FiniteSets, TLC

VARIABLES
    scopeList,            \* circuit.js scopeList: scope id -> scope object
    globalScope,          \* id of the active scope (window.globalScope)
    folderPanelContainer, \* TRUE once initFolderPanel has set the container
    folders,              \* scope.folders of the scope the panel works on
    subcircuitMap,        \* scope.subcircuitMap of that scope
    nextId,               \* number of ids generateId has handed out, plus one
    tree,                 \* the DOM tree last put into the panel
    fx,                   \* what the last handler did (calls it made, path it took)
    drag,                 \* dragInProgress, draggedSubcircuitId, draggedOverFolder,
                          \* and the browser's drag operation
    allNodes,             \* scope.allNodes during removeBugNodes and loadModule
    rbn,                  \* removeBugNodes' locals: pc, i, x
    data,                 \* the document given to load, loadScope or loadModule
    ld,                   \* the loader's locals and the collaborator calls it made
    newScope              \* the object loadScope builds and returns

folderVars == <<folderPanelContainer, folders, subcircuitMap, nextId, tree, fx, drag>>
rbnVars == <<allNodes, rbn>>
loadVars == <<data, ld, newScope>>
vars == <<scopeList, globalScope, folderVars, rbnVars, loadVars>>

----------------------------------------------------------------------------
(* Bounds of the model *)

MaxIds == 2        \* folders created in one run of the panel
MaxFolders == 2    \* folders in a restored folder collection
MaxEntries == 2    \* entries in a restored subcircuitMap
MaxNodes == 3      \* nodes in scope.allNodes when removeBugNodes starts

----------------------------------------------------------------------------
(* JavaScript values *)

Null == "null"
Undefined == "undefined"

\* JS truthiness of an id-like value: null, undefined and '' are falsy
Truthy(v) == v \notin {Null, Undefined, ""}

\* obj[key] on a plain object used as a map
Get(map, key) == IF key \in DOMAIN map THEN map[key] ELSE Undefined

MapSet(map, key, val) ==
    [k \in DOMAIN map \cup {key} |-> IF k = key THEN val ELSE map[k]]

MapDelete(map, key) == [k \in DOMAIN map \ {key} |-> map[k]]

EmptyMap == [k \in {} |-> Null]

\* An optional property: <<>> when absent, <<v>> when it has the value v
Some(S) == {<<>>} \cup {<<v>> : v \in S}

\* The elements of a sequence
Range(s) == {s[i] : i \in 1..Len(s)}

----------------------------------------------------------------------------
(* Strings typed into prompt(): sequences of characters *)

RECURSIVE TrimStart(_)
TrimStart(s) ==
    IF s = <<>> THEN s
    ELSE IF Head(s) = " " THEN TrimStart(Tail(s)) ELSE s

RECURSIVE TrimEnd(_)
TrimEnd(s) ==
    IF s = <<>> THEN s
    ELSE IF s[Len(s)] = " " THEN TrimEnd(SubSeq(s, 1, Len(s) - 1)) ELSE s

\* String.prototype.trim
Trim(s) == TrimEnd(TrimStart(s))

\* Texts a user types: empty, blank, plain, and padded with blanks
Texts == {<<>>, <<" ", " ">>, <<"a">>, <<" ", "b", " ">>}

\* What prompt() returns: <<>> for null (cancelled), <<text>> otherwise
PromptResults == {<<>>} \cup {<<t>> : t \in Texts}

\* Mutant: the name is tested for truthiness only, not trimmed
NameAcceptedUntrimmed(p) == p # <<>> /\ p[1] # <<>>

\* `name && name.trim() !== ''` (folderPanel.js:623, 653)
NameAccepted(p) == p # <<>> /\ p[1] # <<>> /\ Trim(p[1]) # <<>>

----------------------------------------------------------------------------
(* Scopes and folder ids *)

\* The scope whose folder data the panel's handlers hold
ScopeId == "s0"

\* Another loaded scope the user can switch to; it has no folders
OtherScopeId == "s1"

\* Keys of scopeList in insertion order (for ... in order)
ScopeOrder == <<"s0", "s1">>

\* A subcircuit id that is the key of no loaded scope
StaleId == "s9"

\* Keys a subcircuitMap can have, in the order for ... in visits them
KeyOrder == ScopeOrder \o <<StaleId>>

\* scopeList as the folder panel reads it: truthy scope objects with a name
PanelScopeList == [id \in Range(ScopeOrder) |-> [id |-> id, name |-> id]]

\* utils.generateId: a fresh identifier on every call
generateId(n) == "f" \o ToString(n)

\* A folder id that no folder of a collection carries
MissingId == "f0"

Folder(id, name, parentId) == [id |-> id, name |-> name, parentId |-> parentId]

FolderIds(fs) == {fs[i].id : i \in 1..Len(fs)}

----------------------------------------------------------------------------
(* createSubcircuitElement and createFolderStructure *)

\* Mutant: an element is made without looking the id up in scopeList
createSubcircuitElementUnchecked(subcircuitId, sl) == Truthy(subcircuitId)

\* TRUE when createSubcircuitElement returns an element, FALSE when null
createSubcircuitElement(subcircuitId, sl) ==
    /\ Truthy(subcircuitId)
    /\ subcircuitId \in DOMAIN sl

\* The items appended to the root container
RootItems(scopeId, map, sl) ==
    LET InRoot(k) ==
            /\ k \in DOMAIN sl
            /\ k # scopeId
            /\ Get(map, k) \in {Undefined, Null}
            /\ createSubcircuitElement(k, sl)
    IN  SelectSeq(ScopeOrder, InRoot)

\* The items appended to the container of folder fid
FolderItems(fid, map, sl) ==
    LET InFolder(k) ==
            /\ k \in DOMAIN map
            /\ map[k] = fid
            /\ createSubcircuitElement(k, sl)
    IN  SelectSeq(KeyOrder, InFolder)

\* `!folder || !folder.id` fails
ValidFolder(f) == Truthy(f.id)

\* node a is n or an ancestor of n in the element tree built so far
RECURSIVE IsInclusiveAncestor(_, _, _)
IsInclusiveAncestor(a, n, parentOf) ==
    IF n = a THEN TRUE
    ELSE IF n \notin DOMAIN parentOf THEN FALSE
    ELSE IsInclusiveAncestor(a, parentOf[n], parentOf)

\* folderElements[parentId] is an element: the root folder or a folder's
HasElement(parentId, fs) ==
    parentId = "root" \/ \E i \in 1..Len(fs) : ValidFolder(fs[i]) /\ fs[i].id = parentId

\* The container folder f is appended to
ContainerOf(f, fs) ==
    IF Truthy(f.parentId) /\ HasElement(f.parentId, fs) THEN f.parentId ELSE "root"

\* The second loop: appendChild of each folder element in collection order.
\* appendChild throws when the element is an ancestor of the container; the
\* catch block then ends the loop and reports the error.
RECURSIVE OrganizeHierarchy(_, _, _)
OrganizeHierarchy(fs, i, parentOf) ==
    IF i > Len(fs) THEN [parentOf |-> parentOf, error |-> FALSE]
    ELSE IF ~ValidFolder(fs[i]) THEN OrganizeHierarchy(fs, i + 1, parentOf)
    ELSE LET c == ContainerOf(fs[i], fs)
         IN  IF IsInclusiveAncestor(fs[i].id, c, parentOf)
             THEN [parentOf |-> parentOf, error |-> TRUE]
             ELSE OrganizeHierarchy(fs, i + 1, MapSet(parentOf, fs[i].id, c))

\* The element tree createFolderStructure returns for `scopeId`
createFolderStructure(scopeId, fs, map, sl) ==
    LET ids == {fs[i].id : i \in {j \in 1..Len(fs) : ValidFolder(fs[j])}}
        h == OrganizeHierarchy(fs, 1, EmptyMap)
    IN  [rendered |-> TRUE,
         scopeId |-> scopeId,
         rootItems |-> RootItems(scopeId, map, sl),
         folderItems |-> [fid \in ids |-> FolderItems(fid, map, sl)],
         parentOf |-> h.parentOf,
         error |-> h.error]

NoTree ==
    [rendered |-> FALSE, scopeId |-> Null, rootItems |-> <<>>,
     folderItems |-> EmptyMap, parentOf |-> EmptyMap, error |-> FALSE]

\* Folder element fid hangs, through its ancestors, under the root container
RECURSIVE Reachable(_, _)
Reachable(t, fid) ==
    IF fid = "root" THEN TRUE
    ELSE IF fid \notin DOMAIN t.parentOf THEN FALSE
    ELSE Reachable(t, t.parentOf[fid])

\* How many items of subcircuit s a sequence of items holds
Count(items, s) == Cardinality({i \in 1..Len(items) : items[i] = s})

\* How many items of subcircuit s the tree shows under its root
Shown(t, s) ==
    LET fids == {f \in DOMAIN t.folderItems : Reachable(t, f)}
        RECURSIVE Sum(_)
        Sum(S) == IF S = {} THEN 0
                  ELSE LET f == CHOOSE x \in S : TRUE
                       IN  Count(t.folderItems[f], s) + Sum(S \ {f})
    IN  Count(t.rootItems, s) + Sum(fids)

----------------------------------------------------------------------------
(* Scope methods the panel calls: createFolder, renameFolder, deleteFolder *)

\* scope.createFolder(name, parentId): appends a folder with a fresh id
scope_createFolder(fs, n, name, parentId) ==
    Append(fs, Folder(generateId(n), name, parentId))

\* scope.renameFolder(folderId, newName): updates the folder in place
scope_renameFolder(fs, folderId, newName) ==
    [i \in 1..Len(fs) |->
        IF fs[i].id = folderId THEN [fs[i] EXCEPT !.name = newName] ELSE fs[i]]

\* The folders below the folders of S, S included
RECURSIVE Descendants(_, _)
Descendants(fs, S) ==
    LET T == S \cup {fs[i].id : i \in {j \in 1..Len(fs) : fs[j].parentId \in S}}
    IN  IF T = S THEN S ELSE Descendants(fs, T)

\* Ways of treating the child folders of a deleted folder: promote them to
\* root, promote them to the deleted folder's parent, delete them as well
DeletePolicies == {"toRoot", "toParent", "recursive"}

\* scope.deleteFolder(folderId): removes the folder, sends the subcircuits
\* mapped to a removed folder back to root, and promotes or removes the
\* child folders according to the policy
scope_deleteFolder(fs, map, folderId, policy) ==
    LET gone == IF policy = "recursive" THEN Descendants(fs, {folderId}) ELSE {folderId}
        up == IF \E i \in 1..Len(fs) : fs[i].id = folderId
              THEN (CHOOSE f \in Range(fs) : f.id = folderId).parentId
              ELSE Null
        Keep(f) == f.id \notin gone
        Fix(f) == IF f.parentId \in gone
                  THEN [f EXCEPT !.parentId = IF policy = "toParent" THEN up ELSE Null]
                  ELSE f
        kept == SelectSeq(fs, Keep)
    IN  [folders |-> [i \in 1..Len(kept) |-> Fix(kept[i])],
         subcircuitMap |-> [k \in {x \in DOMAIN map : map[x] \notin gone} |-> map[k]]]

----------------------------------------------------------------------------
(* Handlers of the folder panel *)

\* What a handler did: the path it took and the calls it made
Fx(op, path, backup, render, message, created) ==
    [op |-> op, path |-> path, backup |-> backup, render |-> render,
     message |-> message, created |-> created, ret |-> Undefined, threw |-> FALSE]

NoFx == Fx("none", "none", 0, 0, 0, <<>>)

\* The module's drag variables (lines 22-34), whether folderPanelContainer
\* carries the class highlightDropTargets sets, and the browser's drag
\* operation: the subcircuit whose item is being dragged (null when no drag
\* is under way), whether that item is still in the document, and whether
\* the drag was dropped on a container of the panel
NoDrag ==
    [dragInProgress |-> FALSE, draggedSubcircuitId |-> Null, draggedOverFolder |-> Null,
     highlighted |-> FALSE, source |-> Null, attached |-> FALSE, dropped |-> FALSE]

\* folderPanelContainer.innerHTML = '' (line 717): a render that happened
\* replaces every item of the panel, the dragged one included
DetachedBy(f, d) == IF f.render > 0 THEN [d EXCEPT !.attached = FALSE] ELSE d

\* Folder data of a scope: only ScopeId has any
ScopeFolders(id, fs) == IF id = ScopeId THEN fs ELSE <<>>
ScopeMap(id, map) == IF id = ScopeId THEN map ELSE EmptyMap

\* renderFolderPanel(scope): the panel's tree afterwards
renderFolderPanel(scopeId, fs, map, sl, container, old) ==
    IF ~container THEN old
    ELSE createFolderStructure(scopeId, ScopeFolders(scopeId, fs), ScopeMap(scopeId, map), sl)

\* `scope.subcircuitMap[subcircuitId] || "root"`
CurrentFolder(map, subcircuitId) ==
    IF Truthy(Get(map, subcircuitId)) THEN map[subcircuitId] ELSE "root"

\* Mutant: the early return is taken only for subcircuits in root
SameFolderRootOnly(currentFolder, folderId) == currentFolder = "root" /\ folderId = "root"

\* `currentFolder === folderId`
SameFolder(currentFolder, folderId) == currentFolder = folderId

\* Mutant: the destination folder is not looked up
FolderExistsAlways(fs, folderId) == TRUE

\* `scope.folders.some(folder => folder.id === folderId)`
FolderExists(fs, folderId) == \E i \in 1..Len(fs) : fs[i].id = folderId

\* Mutant: a move to root stores null instead of deleting the entry
UpdateMapStoreNull(map, subcircuitId, folderId) == MapSet(map, subcircuitId, folderId)

\* The new map entry of a move that passed validation
UpdateMap(map, subcircuitId, folderId) ==
    IF folderId = Null THEN MapDelete(map, subcircuitId)
    ELSE MapSet(map, subcircuitId, folderId)

\* moveSubcircuitToFolder(subcircuitId, folderId, scope): the map afterwards
\* and what the call did
moveSubcircuitToFolder(subcircuitId, folderId, fs, map, sl) ==
    IF ~Truthy(subcircuitId)
    THEN [subcircuitMap |-> map, fx |-> Fx("move", "noId", 0, 0, 0, <<>>)]
    ELSE IF subcircuitId \notin DOMAIN sl
    THEN [subcircuitMap |-> map, fx |-> Fx("move", "notInScopeList", 0, 0, 0, <<>>)]
    ELSE IF SameFolder(CurrentFolder(map, subcircuitId), folderId)
    THEN [subcircuitMap |-> map, fx |-> Fx("move", "same", 0, 0, 0, <<>>)]
    ELSE IF folderId # Null /\ ~FolderExists(fs, folderId)
    THEN [subcircuitMap |-> map, fx |-> Fx("move", "noFolder", 0, 0, 0, <<>>)]
    ELSE [subcircuitMap |-> UpdateMap(map, subcircuitId, folderId),
          fx |-> Fx("move", "moved", 1, 1, 1, <<>>)]

\* createNewFolder(scope, parentId) when prompt() returns p
createNewFolder(p, parentId, fs, n) ==
    IF NameAccepted(p)
    THEN [folders |-> scope_createFolder(fs, n, Trim(p[1]), parentId),
          nextId |-> n + 1,
          fx |-> Fx("create", "created", 1, 1, 1, <<<<Trim(p[1]), parentId>>>>)]
    ELSE [folders |-> fs, nextId |-> n, fx |-> Fx("create", "rejected", 0, 0, 0, <<>>)]

\* Mutant: the name is passed on as prompt() returned it
renameFolderUntrimmed(folder, p, fs) ==
    IF NameAccepted(p)
    THEN [folders |-> scope_renameFolder(fs, folder.id, p[1]),
          fx |-> Fx("rename", "renamed", 1, 1, 0, <<>>)]
    ELSE [folders |-> fs, fx |-> Fx("rename", "rejected", 0, 0, 0, <<>>)]

\* renameFolder(folder, scope) when prompt() returns p
renameFolder(folder, p, fs) ==
    IF NameAccepted(p)
    THEN [folders |-> scope_renameFolder(fs, folder.id, Trim(p[1])),
          fx |-> Fx("rename", "renamed", 1, 1, 0, <<>>)]
    ELSE [folders |-> fs, fx |-> Fx("rename", "rejected", 0, 0, 0, <<>>)]

\* Mutant: the confirmed branch re-renders and backs up without deleting
deleteFolderNoCall(folder, confirmed, fs, map, policy) ==
    [folders |-> fs, subcircuitMap |-> map,
     fx |-> IF confirmed THEN Fx("delete", "deleted", 1, 1, 0, <<>>)
            ELSE Fx("delete", "cancelled", 0, 0, 0, <<>>)]

\* deleteFolder(folder, scope) when confirm() returns confirmed
deleteFolder(folder, confirmed, fs, map, policy) ==
    IF confirmed
    THEN LET d == scope_deleteFolder(fs, map, folder.id, policy)
         IN  [folders |-> d.folders, subcircuitMap |-> d.subcircuitMap,
              fx |-> Fx("delete", "deleted", 1, 1, 0, <<>>)]
    ELSE [folders |-> fs, subcircuitMap |-> map,
          fx |-> Fx("delete", "cancelled", 0, 0, 0, <<>>)]

----------------------------------------------------------------------------
(* Actions of the folder panel *)

IdleRbn == [pc |-> "idle", i |-> 0, x |-> 0]
IdleLd == [pc |-> "idle", i |-> 0]
IdleData == [scopes |-> <<>>]
NoScope == [id |-> Null]

OthersIdle ==
    /\ allNodes = <<>>
    /\ rbn = IdleRbn
    /\ data = IdleData
    /\ ld = IdleLd
    /\ newScope = NoScope

\* The handlers below are those of a panel rendered from scope ScopeId
PanelShowsScope == folderPanelContainer /\ tree.rendered /\ tree.scopeId = ScopeId

\* Folder ids a caller can pass: null (root), an existing folder, an unknown id
Destinations(fs) == {Null, MissingId} \cup FolderIds(fs)

InitFolderPanelAct ==
    /\ ~folderPanelContainer
    /\ folderPanelContainer' = TRUE
    /\ tree' = renderFolderPanel(globalScope, folders, subcircuitMap, scopeList, TRUE, tree)
    /\ fx' = Fx("init", "rendered", 0, 1, 0, <<>>)
    /\ drag' = DetachedBy(fx', drag)
    /\ UNCHANGED <<scopeList, globalScope, folders, subcircuitMap, nextId,
                   rbnVars, loadVars>>

\* updateFolderPanel / toggleFolderPanel: render the active scope again
UpdateFolderPanelAct ==
    /\ folderPanelContainer
    /\ tree' = renderFolderPanel(globalScope, folders, subcircuitMap, scopeList,
                                 folderPanelContainer, tree)
    /\ fx' = Fx("update", "rendered", 0, 1, 0, <<>>)
    /\ drag' = DetachedBy(fx', drag)
    /\ UNCHANGED <<scopeList, globalScope, folderPanelContainer, folders, subcircuitMap,
                   nextId, rbnVars, loadVars>>

MoveAct(subcircuitId, folderId) ==
    /\ PanelShowsScope
    /\ LET r == moveSubcircuitToFolder(subcircuitId, folderId, folders, subcircuitMap,
                                       scopeList)
       IN  /\ subcircuitMap' = r.subcircuitMap
           /\ fx' = r.fx
           /\ tree' = IF r.fx.render > 0
                      THEN renderFolderPanel(ScopeId, folders, r.subcircuitMap, scopeList,
                                             folderPanelContainer, tree)
                      ELSE tree
    /\ drag' = DetachedBy(fx', drag)
    /\ UNCHANGED <<scopeList, globalScope, folderPanelContainer, folders, nextId,
                   rbnVars, loadVars>>

CreateAct(p, parentId) ==
    /\ PanelShowsScope
    /\ NameAccepted(p) => nextId <= MaxIds
    /\ LET r == createNewFolder(p, parentId, folders, nextId)
       IN  /\ folders' = r.folders
           /\ nextId' = r.nextId
           /\ fx' = r.fx
           /\ tree' = IF r.fx.render > 0
                      THEN renderFolderPanel(ScopeId, r.folders, subcircuitMap, scopeList,
                                             folderPanelContainer, tree)
                      ELSE tree
    /\ drag' = DetachedBy(fx', drag)
    /\ UNCHANGED <<scopeList, globalScope, folderPanelContainer, subcircuitMap,
                   rbnVars, loadVars>>

\* renameFolder and deleteFolder call renderFolderPanel() without a scope:
\* the panel then shows the active scope
RenameAct(i, p) ==
    /\ PanelShowsScope
    /\ LET r == renameFolder(folders[i], p, folders)
       IN  /\ folders' = r.folders
           /\ fx' = r.fx
           /\ tree' = IF r.fx.render > 0
                      THEN renderFolderPanel(globalScope, r.folders, subcircuitMap,
                                             scopeList, folderPanelContainer, tree)
                      ELSE tree
    /\ drag' = DetachedBy(fx', drag)
    /\ UNCHANGED <<scopeList, globalScope, folderPanelContainer, subcircuitMap, nextId,
                   rbnVars, loadVars>>

\* The policy scope.deleteFolder follows for child folders is not fixed by the
\* panel: each of the three is allowed
DeleteAct(i, confirmed, policy) ==
    /\ PanelShowsScope
    /\ LET r == deleteFolder(folders[i], confirmed, folders, subcircuitMap, policy)
       IN  /\ folders' = r.folders
           /\ subcircuitMap' = r.subcircuitMap
           /\ fx' = r.fx
           /\ tree' = IF r.fx.render > 0
                      THEN renderFolderPanel(globalScope, r.folders, r.subcircuitMap,
                                             scopeList, folderPanelContainer, tree)
                      ELSE tree
    /\ drag' = DetachedBy(fx', drag)
    /\ UNCHANGED <<scopeList, globalScope, folderPanelContainer, nextId,
                   rbnVars, loadVars>>

InitFolder ==
    /\ scopeList = PanelScopeList
    /\ globalScope = ScopeId
    /\ folderPanelContainer = FALSE
    /\ folders = <<>>
    /\ subcircuitMap = EmptyMap
    /\ nextId = 1
    /\ tree = NoTree
    /\ fx = NoFx
    /\ drag = NoDrag
    /\ OthersIdle

NextFolder ==
    \/ InitFolderPanelAct
    \/ UpdateFolderPanelAct
    \/ \E s \in Range(KeyOrder) \cup {""}, f \in Destinations(folders) : MoveAct(s, f)
    \/ \E p \in PromptResults, f \in {Null} \cup FolderIds(folders) : CreateAct(p, f)
    \/ \E i \in 1..Len(folders), p \in PromptResults : RenameAct(i, p)
    \/ \E i \in 1..Len(folders) : DeleteAct(i, FALSE, "toRoot")
    \/ \E i \in 1..Len(folders), q \in DeletePolicies : DeleteAct(i, TRUE, q)

SpecFolder == InitFolder /\ [][NextFolder]_vars

----------------------------------------------------------------------------
(* Dragging subcircuit items, and switching the active scope *)

\* The subcircuits that have an item in the tree, and the tree's containers
Items(t) ==
    Range(t.rootItems) \cup UNION {Range(t.folderItems[f]) : f \in DOMAIN t.folderItems}

Containers(t) == {"root"} \cup DOMAIN t.folderItems

\* Lines 334-355: dragstart on the item of subcircuitId
DragStartAct(subcircuitId) ==
    /\ PanelShowsScope
    /\ drag.source = Null
    /\ subcircuitId \in Items(tree)
    /\ drag' = [drag EXCEPT !.draggedSubcircuitId = subcircuitId, !.dragInProgress = TRUE,
                            !.highlighted = TRUE, !.source = subcircuitId,
                            !.attached = TRUE, !.dropped = FALSE]
    /\ fx' = Fx("dragstart", "started", 0, 0, 0, <<>>)
    /\ UNCHANGED <<scopeList, globalScope, folderPanelContainer, folders, subcircuitMap,
                   nextId, tree, rbnVars, loadVars>>

\* Lines 85-93 and 206-214: dragover on a container
DragOverAct(container) ==
    /\ PanelShowsScope
    /\ drag.source # Null /\ ~drag.dropped
    /\ container \in Containers(tree)
    /\ drag' = [drag EXCEPT !.draggedOverFolder = container]
    /\ fx' = Fx("dragover", "over", 0, 0, 0, <<>>)
    /\ UNCHANGED <<scopeList, globalScope, folderPanelContainer, folders, subcircuitMap,
                   nextId, tree, rbnVars, loadVars>>

\* Lines 101-121 and 222-242: drop on a container. The id is
\* draggedSubcircuitId, or else what dragstart put into dataTransfer; a
\* move that succeeds re-renders the panel.
DropAct(container) ==
    /\ PanelShowsScope
    /\ drag.source # Null /\ ~drag.dropped
    /\ container \in Containers(tree)
    /\ LET subcircuitId == IF Truthy(drag.draggedSubcircuitId)
                           THEN drag.draggedSubcircuitId ELSE drag.source
           folderId == IF container = "root" THEN Null ELSE container
           r == moveSubcircuitToFolder(subcircuitId, folderId, folders, subcircuitMap,
                                       scopeList)
       IN  /\ subcircuitMap' = r.subcircuitMap
           /\ fx' = r.fx
           /\ tree' = IF r.fx.render > 0
                      THEN renderFolderPanel(ScopeId, folders, r.subcircuitMap, scopeList,
                                             folderPanelContainer, tree)
                      ELSE tree
           /\ drag' = [DetachedBy(r.fx, drag) EXCEPT !.draggedSubcircuitId = Null,
                                                     !.dropped = TRUE]
    /\ UNCHANGED <<scopeList, globalScope, folderPanelContainer, folders, nextId,
                   rbnVars, loadVars>>

\* Lines 357-380: the browser ends the drag and fires dragend at the item
DragEndAct ==
    /\ drag.source # Null
    /\ drag' = NoDrag
    /\ fx' = Fx("dragend", "ended", 0, 0, 0, <<>>)
    /\ UNCHANGED <<scopeList, globalScope, folderPanelContainer, folders, subcircuitMap,
                   nextId, tree, rbnVars, loadVars>>

\* The browser ends the drag of an item that a render has taken out of the
\* document, and the item's dragend listener is not run
DragEndLostAct ==
    /\ drag.source # Null
    /\ ~drag.attached
    /\ drag' = [drag EXCEPT !.source = Null, !.dropped = FALSE]
    /\ fx' = Fx("dragend", "lost", 0, 0, 0, <<>>)
    /\ UNCHANGED <<scopeList, globalScope, folderPanelContainer, folders, subcircuitMap,
                   nextId, tree, rbnVars, loadVars>>

\* Lines 382-385 and 522-535: a double click on an item makes its scope the
\* active one; the panel is not rendered again
SwitchToSubcircuitAct(subcircuitId) ==
    /\ folderPanelContainer /\ tree.rendered
    /\ drag.source = Null
    /\ subcircuitId \in Items(tree)
    /\ globalScope' = subcircuitId
    /\ fx' = Fx("switch", "switched", 0, 0, 0, <<>>)
    /\ UNCHANGED <<scopeList, folderPanelContainer, folders, subcircuitMap, nextId, tree,
                   drag, rbnVars, loadVars>>

\* The handlers of clicks and of panel updates run between drags
NextPanel ==
    \/ drag.source = Null /\ NextFolder
    \/ \E s \in Range(ScopeOrder) : DragStartAct(s)
    \/ \E c \in {"root"} \cup FolderIds(folders) : DragOverAct(c)
    \/ \E c \in {"root"} \cup FolderIds(folders) : DropAct(c)
    \/ DragEndAct
    \/ DragEndLostAct
    \/ \E s \in Range(ScopeOrder) : SwitchToSubcircuitAct(s)

SpecPanel == InitFolder /\ [][NextPanel]_vars

\* The browser ends every drag operation it has begun
SpecPanelFair == SpecPanel /\ WF_vars(DragEndAct \/ DragEndLostAct)

----------------------------------------------------------------------------
(* createFolderStructure on folder data restored from a saved scope *)

RestoredParents == {Null, MissingId} \cup {generateId(n) : n \in 1..MaxFolders}

RestoredFolderRecords ==
    {Folder(generateId(n), <<"a">>, q) : n \in 1..MaxFolders, q \in RestoredParents}

\* Collections of at most MaxFolders folders with distinct ids, in any order
RestoredFolders ==
    {fs \in UNION {[1..n -> RestoredFolderRecords] : n \in 0..MaxFolders} :
        \A i, j \in 1..Len(fs) : i # j => fs[i].id # fs[j].id}

\* Maps of at most MaxEntries entries; a value may name no existing folder
RestoredMaps ==
    UNION {[K -> RestoredParents \ {Null}] :
            K \in {S \in SUBSET Range(KeyOrder) : Cardinality(S) <= MaxEntries}}

InitTree ==
    /\ scopeList = PanelScopeList
    /\ globalScope = ScopeId
    /\ folderPanelContainer = TRUE
    /\ folders \in RestoredFolders
    /\ subcircuitMap \in RestoredMaps
    /\ nextId = MaxFolders + 1
    /\ tree = NoTree
    /\ fx = NoFx
    /\ drag = NoDrag
    /\ OthersIdle

NextTree == UpdateFolderPanelAct

SpecTree == InitTree /\ [][NextTree]_vars

----------------------------------------------------------------------------
(* Properties of the folder panel *)

MoveInputs == Range(KeyOrder) \cup {""}

\* The step is a call of the handler with these arguments (the name the
\* handler leaves in fx is tested first: it decides most steps at once)
IsMove(s, f) == fx'.op = "move" /\ MoveAct(s, f)
IsCreate(p, f) == fx'.op = "create" /\ CreateAct(p, f)
IsDelete(i, c, q) == fx'.op = "delete" /\ DeleteAct(i, c, q)
IsUpdate == fx'.op = "update" /\ UpdateFolderPanelAct

\* C3: moveSubcircuitToFolder called with the folder the subcircuit already
\* occupies leaves subcircuitMap unchanged, schedules no backup, renders
\* nothing and shows no message.
C3_MoveToCurrentFolderIsNoOp ==
    [][\A s \in MoveInputs, f \in Destinations(folders) :
        (f # Null /\ Get(subcircuitMap, s) = f /\ IsMove(s, f))
            => /\ subcircuitMap' = subcircuitMap
               /\ tree' = tree
               /\ fx'.backup = 0 /\ fx'.render = 0 /\ fx'.message = 0]_vars

C3_Witness ==
    /\ fx.op = "move" /\ fx.path = "same"
    /\ \E s \in DOMAIN subcircuitMap : subcircuitMap[s] \in FolderIds(folders)

\* The caller of a handler learns of a failure: a return value, an exception
\* or a status message
Reported(f) == f.ret # Undefined \/ f.threw \/ f.message > 0

\* C4: moveSubcircuitToFolder with a non-null folderId that is the id of no
\* folder leaves subcircuitMap and folders unchanged, schedules no backup and
\* reports the failure to the caller.
C4_MissingFolderLeavesStateAndReports ==
    [][\A s \in MoveInputs, f \in Destinations(folders) :
        (f # Null /\ (~\E i \in 1..Len(folders) : folders[i].id = f) /\ IsMove(s, f))
            => /\ subcircuitMap' = subcircuitMap
               /\ folders' = folders
               /\ fx'.backup = 0
               /\ Reported(fx')]_vars

\* C5: a successful move changes only the entry of the moved subcircuit: to
\* root it has no entry afterwards, to an existing folder its entry is that
\* folder; all other entries and the folders are unchanged; a subcircuitId
\* that is no key of scopeList changes nothing.
C5_MoveChangesOnlyMovedEntry ==
    [][\A s \in MoveInputs, f \in Destinations(folders) :
        IsMove(s, f) =>
            /\ (/\ s \in DOMAIN scopeList
                /\ \/ f = Null
                   \/ (\E i \in 1..Len(folders) : folders[i].id = f)
                        /\ Get(subcircuitMap, s) # f)
                => /\ f = Null => s \notin DOMAIN subcircuitMap'
                   /\ f # Null => Get(subcircuitMap', s) = f
                   /\ \A k \in (DOMAIN subcircuitMap \cup DOMAIN subcircuitMap') \ {s} :
                        Get(subcircuitMap', k) = Get(subcircuitMap, k)
                   /\ folders' = folders
            /\ s \notin DOMAIN scopeList
                => subcircuitMap' = subcircuitMap /\ folders' = folders]_vars

C5_Witness ==
    /\ fx.op = "move" /\ fx.path = "moved"
    /\ Cardinality(DOMAIN subcircuitMap) >= 2
    /\ Len(folders) >= 2

\* C6: after a confirmed deleteFolder the folder is no longer in
\* scope.folders, every subcircuit that was mapped to it has no map entry,
\* and no remaining folder has the deleted id as parentId.
C6_DeleteLeavesNoReference ==
    [][\A i \in 1..Len(folders), q \in DeletePolicies :
        IsDelete(i, TRUE, q) =>
            /\ folders[i].id \notin FolderIds(folders')
            /\ \A k \in DOMAIN subcircuitMap :
                subcircuitMap[k] = folders[i].id => k \notin DOMAIN subcircuitMap'
            /\ \A j \in 1..Len(folders') : folders'[j].parentId # folders[i].id]_vars

C6_Witness ==
    /\ fx.op = "delete" /\ fx.path = "deleted"
    /\ Len(folders) >= 1
    /\ subcircuitMap = EmptyMap

\* C7: in the tree createFolderStructure builds, every folder whose parentId
\* is absent or is the id of no folder of the collection hangs directly
\* under the root container; it is never dropped.
C7_OrphanFoldersUnderRoot ==
    tree.rendered =>
        \A i \in 1..Len(folders) :
            (~Truthy(folders[i].parentId) \/ folders[i].parentId \notin FolderIds(folders))
                => Get(tree.parentOf, folders[i].id) = "root"

\* C8: whatever the folders and the map, each loaded scope other than the
\* displayed one has exactly one item in the containers reachable from root.
C8_EverySubcircuitShownOnce ==
    tree.rendered =>
        \A s \in DOMAIN scopeList \ {tree.scopeId} : Shown(tree, s) = 1

\* C9: a subcircuitMap entry whose key is the id of no loaded scope is
\* tolerated: rendering completes, the entry stays in the map, and no item
\* for it is in any container of the tree.
C9_StaleEntryToleratedNotRendered ==
    [][IsUpdate =>
        /\ tree'.rendered
        /\ subcircuitMap' = subcircuitMap
        /\ \A k \in DOMAIN subcircuitMap \ DOMAIN scopeList :
            /\ Count(tree'.rootItems, k) = 0
            /\ \A f \in DOMAIN tree'.folderItems : Count(tree'.folderItems[f], k) = 0]_vars

C9_Witness ==
    /\ tree.rendered
    /\ StaleId \in DOMAIN subcircuitMap
    /\ subcircuitMap[StaleId] \in FolderIds(folders)
    /\ StaleId \notin DOMAIN scopeList

\* A text of blanks only (the empty text included)
OnlyBlanks(t) == \A i \in 1..Len(t) : t[i] = " "

\* t is s without its leading and trailing blanks
IsTrimOf(t, s) ==
    /\ t # <<>> /\ t[1] # " " /\ t[Len(t)] # " "
    /\ \E a \in 0..Len(s) :
        /\ a + Len(t) <= Len(s)
        /\ SubSeq(s, a + 1, a + Len(t)) = t
        /\ OnlyBlanks(SubSeq(s, 1, a))
        /\ OnlyBlanks(SubSeq(s, a + Len(t) + 1, Len(s)))

\* C10: createNewFolder with an absent, empty or blank name adds no folder,
\* changes neither folders nor subcircuitMap and schedules no backup; with
\* any other name it calls scope.createFolder exactly once, with the trimmed
\* name and the given parentId.
C10_CreateValidatesName ==
    [][\A p \in PromptResults, f \in {Null} \cup FolderIds(folders) :
        IsCreate(p, f) =>
            IF p = <<>> \/ OnlyBlanks(p[1])
            THEN /\ folders' = folders
                 /\ subcircuitMap' = subcircuitMap
                 /\ fx'.created = <<>>
                 /\ fx'.backup = 0
            ELSE /\ Len(fx'.created) = 1
                 /\ IsTrimOf(fx'.created[1][1], p[1])
                 /\ fx'.created[1][2] = f]_vars

C10_Witness ==
    /\ fx.op = "create" /\ fx.path = "created"
    /\ fx.created = <<<<(<<"b">>), generateId(1)>>>>

IsRename(i, p) == fx'.op = "rename" /\ RenameAct(i, p)

\* C11: renameFolder with an absent, empty or blank new name leaves folders
\* and subcircuitMap unchanged and schedules no backup; with any other name
\* the folder with that id gets the trimmed name, every other folder and
\* every map entry stays as it was.
C11_RenameValidatesName ==
    [][\A i \in 1..Len(folders), p \in PromptResults :
        IsRename(i, p) =>
            IF p = <<>> \/ OnlyBlanks(p[1])
            THEN /\ folders' = folders
                 /\ subcircuitMap' = subcircuitMap
                 /\ fx'.backup = 0
            ELSE /\ Len(folders') = Len(folders)
                 /\ subcircuitMap' = subcircuitMap
                 /\ \A j \in 1..Len(folders) :
                        IF folders[j].id = folders[i].id
                        THEN /\ IsTrimOf(folders'[j].name, p[1])
                             /\ folders'[j].id = folders[j].id
                             /\ folders'[j].parentId = folders[j].parentId
                        ELSE folders'[j] = folders[j]]_vars

C11_Witness ==
    /\ fx.op = "rename" /\ fx.path = "renamed"
    /\ Len(folders) >= 2
    /\ \E j, k \in 1..Len(folders) : folders[j].name = <<"b">> /\ folders[k].name = <<"a">>

\* C12: a folder operation that fails validation (a blank name given to
\* create or rename, a move to a folder that does not exist, a move of an
\* unknown subcircuit) shows a status message and leaves folders,
\* subcircuitMap and the rendered panel as they were.
C12_ValidationFailureShowsMessage ==
    [][/\ \A p \in PromptResults, f \in {Null} \cup FolderIds(folders) :
            (p # <<>> /\ OnlyBlanks(p[1]) /\ IsCreate(p, f)) =>
                /\ fx'.message > 0
                /\ folders' = folders /\ subcircuitMap' = subcircuitMap /\ tree' = tree
       /\ \A i \in 1..Len(folders), p \in PromptResults :
            (p # <<>> /\ OnlyBlanks(p[1]) /\ IsRename(i, p)) =>
                /\ fx'.message > 0
                /\ folders' = folders /\ subcircuitMap' = subcircuitMap /\ tree' = tree
       /\ \A s \in MoveInputs, f \in Destinations(folders) :
            (/\ \/ s \notin DOMAIN scopeList
                \/ f # Null /\ ~(\E i \in 1..Len(folders) : folders[i].id = f)
             /\ IsMove(s, f)) =>
                /\ fx'.message > 0
                /\ folders' = folders /\ subcircuitMap' = subcircuitMap /\ tree' = tree]_vars

\* C27: after any sequence of create, rename, delete and move on a scope
\* that started with no folders and an empty map, every value of
\* subcircuitMap is the id of a folder in scope.folders; a subcircuit has at
\* most one entry, so it is in the one folder its entry names or, without an
\* entry, in root.
C27_MapValuesAreFolders ==
    /\ \A s \in DOMAIN subcircuitMap : subcircuitMap[s] \in FolderIds(folders)
    /\ \A s \in DOMAIN scopeList :
          Cardinality({f \in FolderIds(folders) \cup {"root"} :
                          f = CurrentFolder(subcircuitMap, s)}) = 1

C27_Witness ==
    /\ fx.op = "delete" /\ fx.path = "deleted"
    /\ Len(folders) >= 1
    /\ subcircuitMap # EmptyMap

\* C28: moveSubcircuitToFolder to root (folderId null) of a subcircuit that
\* has no map entry is a no-op: subcircuitMap is unchanged, and
\* scheduleBackup, renderFolderPanel and showMessage are not called.
C28_MoveToRootFromRootIsNoOp ==
    [][\A s \in DOMAIN scopeList :
        (s \notin DOMAIN subcircuitMap /\ IsMove(s, Null))
            => /\ subcircuitMap' = subcircuitMap
               /\ fx'.backup = 0 /\ fx'.render = 0 /\ fx'.message = 0]_vars

\* C30: whatever the folder collection, self-parents and parent cycles
\* included, every folder is in the tree createFolderStructure returns,
\* reachable from the root container.
C30_EveryFolderReachable ==
    tree.rendered => \A i \in 1..Len(folders) : Reachable(tree, folders[i].id)

\* C31: the scope whose panel is displayed never has an entry in its own
\* subcircuitMap and is never an item of its own tree, in the root container
\* or in a folder's.
C31_ScopeNotItsOwnSubcircuit ==
    /\ ScopeId \notin DOMAIN subcircuitMap
    /\ (tree.rendered /\ tree.scopeId = ScopeId) =>
          /\ Count(tree.rootItems, ScopeId) = 0
          /\ \A f \in DOMAIN tree.folderItems : Count(tree.folderItems[f], ScopeId) = 0

\* The drag variables are back at their idle values and the drop-target
\* highlighting is off
DragReset ==
    /\ ~drag.dragInProgress
    /\ drag.draggedSubcircuitId = Null
    /\ drag.draggedOverFolder = Null
    /\ ~drag.highlighted

\* C32: every drag that starts on a subcircuit item is followed by a state
\* in which the drag state is fully reset (dragInProgress false,
\* draggedSubcircuitId and draggedOverFolder null, highlighting removed),
\* also when the drop re-rendered the panel and the dragged item's dragend
\* listener does not run.
C32_DragEndsReset == [](drag.dragInProgress => <>DragReset)

\* C33: after renameFolder, deleteFolder, createNewFolder or
\* moveSubcircuitToFolder has mutated the scope and scheduled its backup,
\* the panel shows the tree of that same scope, whichever scope is active.
C33_RenderedScopeIsMutatedScope ==
    (fx.op \in {"rename", "delete", "create", "move"} /\ fx.backup > 0) =>
        tree.rendered /\ tree.scopeId = ScopeId

----------------------------------------------------------------------------
(* removeBugNodes *)

\* A node: its id, its type (2 is an intermediate node), whether its parent's
\* objectType is 'CircuitElement', and the ids of the nodes it is connected to
Node(id, type, parentCE, connections) ==
    [id |-> id, type |-> type, parentCE |-> parentCE, connections |-> connections]

NodeTypes == {0, 1, 2}

\* The test of line 89
IsBugNode(n) == n.type # 2 /\ n.parentCE

\* node.delete(): the node leaves allNodes and the connections of its
\* neighbours; a neighbour that is an intermediate node left without
\* connections is deleted too (checkDeleted)
NodeDelete(nodes, id) ==
    LET Unlink(n) == [n EXCEPT !.connections = @ \ {id}]
        Stays(n) ==
            /\ n.id # id
            /\ ~(id \in n.connections /\ n.type = 2 /\ n.connections = {id})
        kept == SelectSeq(nodes, Stays)
    IN  [k \in 1..Len(kept) |-> Unlink(kept[k])]

\* Mutant: the index is reset in every iteration, deletion or not
RemoveBugNodesIterResetAlways(nodes, r) ==
    LET n == nodes[r.i + 1]
        after == IF IsBugNode(n) THEN NodeDelete(nodes, n.id) ELSE nodes
    IN  [allNodes |-> after, rbn |-> [pc |-> "loop", i |-> 0 + 1, x |-> Len(after)]]

\* One iteration of the for loop (lines 88-94) with locals r = [pc, i, x]:
\* the body, then i++
RemoveBugNodesIter(nodes, r) ==
    LET n == nodes[r.i + 1]
        after == IF IsBugNode(n) THEN NodeDelete(nodes, n.id) ELSE nodes
        reset == Len(after) # r.x
        i1 == IF reset THEN 0 ELSE r.i
        x1 == IF reset THEN Len(after) ELSE r.x
    IN  [allNodes |-> after, rbn |-> [pc |-> "loop", i |-> i1 + 1, x |-> x1]]

\* removeBugNodes(scope) run to its end: scope.allNodes afterwards
RECURSIVE RemoveBugNodesFrom(_, _)
RemoveBugNodesFrom(nodes, r) ==
    IF r.i < r.x
    THEN LET s == RemoveBugNodesIter(nodes, r) IN RemoveBugNodesFrom(s.allNodes, s.rbn)
    ELSE nodes

removeBugNodes(nodes) == RemoveBugNodesFrom(nodes, [pc |-> "loop", i |-> 0, x |-> Len(nodes)])

RemoveBugNodesStepAct ==
    /\ rbn.pc = "loop"
    /\ rbn.i < rbn.x
    /\ LET s == RemoveBugNodesIter(allNodes, rbn)
       IN  allNodes' = s.allNodes /\ rbn' = s.rbn
    /\ UNCHANGED <<scopeList, globalScope, folderVars, loadVars>>

RemoveBugNodesExitAct ==
    /\ rbn.pc = "loop"
    /\ ~(rbn.i < rbn.x)
    /\ rbn' = [rbn EXCEPT !.pc = "done"]
    /\ UNCHANGED <<scopeList, globalScope, folderVars, allNodes, loadVars>>

\* The pairs of distinct nodes among n nodes
NodePairs(n) == {{j, k} : j, k \in 1..n} \ {{j} : j \in 1..n}

\* The list of n nodes with types ty, parents pc and connections e
NodeList(n, ty, pc, e) ==
    [k \in 1..n |-> Node(k, ty[k], pc[k], {j \in 1..n : j # k /\ {j, k} \in e})]

\* Any list of at most MaxNodes nodes with symmetric connections
InitRBN ==
    /\ \E n \in 0..MaxNodes :
        \E ty \in [1..n -> NodeTypes], pc \in [1..n -> BOOLEAN], e \in SUBSET NodePairs(n) :
            allNodes = NodeList(n, ty, pc, e)
    /\ rbn = [pc |-> "loop", i |-> 0, x |-> Len(allNodes)]
    /\ scopeList = EmptyMap
    /\ globalScope = Null
    /\ folderPanelContainer = FALSE
    /\ folders = <<>>
    /\ subcircuitMap = EmptyMap
    /\ nextId = 1
    /\ tree = NoTree
    /\ fx = NoFx
    /\ drag = NoDrag
    /\ data = IdleData
    /\ ld = IdleLd
    /\ newScope = NoScope

NextRBN == RemoveBugNodesStepAct \/ RemoveBugNodesExitAct

SpecRBN == InitRBN /\ [][NextRBN]_vars

\* removeBugNodes is sequential code: while the loop or its exit can take a
\* step, it takes one
SpecRBNFair == SpecRBN /\ WF_vars(NextRBN)

\* C2: when removeBugNodes returns, no node of the scope has a type other
\* than 2 and a parent whose objectType is 'CircuitElement'.
C2_NoBugNodeLeft ==
    rbn.pc = "done" => \A k \in 1..Len(allNodes) : ~IsBugNode(allNodes[k])

\* C29: removeBugNodes terminates on every finite node list: every run
\* reaches the return of the function, index resets after deletions
\* included.
C29_RemoveBugNodesTerminates == <>(rbn.pc = "done")

\* A run that has returned after a deletion moved a node to a lower index
C29_Witness ==
    /\ rbn.pc = "done"
    /\ \E k \in 1..Len(allNodes) : allNodes[k].id # k

----------------------------------------------------------------------------
(* loadModule *)

\* Mutant: no tag is translated
rectifyObjectTypeNone(obj) == obj

\* Lines 25-31: the table of retired type tags
rectifyObjectType(obj) ==
    IF obj = "FlipFlop" THEN "DflipFlop"
    ELSE IF obj = "Ram" THEN "Rom"
    ELSE obj

\* The element types that can be constructed (the keys of modules)
ModuleTypes == {"Input", "Output", "AndGate", "DflipFlop", "Rom", "SubCircuit"}

\* Orientation tokens: the canonical ones and the legacy ones
Directions == {"RIGHT", "LEFT", "UP", "DOWN"}
LegacyDirections == {"right", "left", "up", "down"}

\* fixDirection: a legacy (lower-case) token becomes a canonical one, a
\* canonical one stays
fixDirection(dir) ==
    CASE dir = "right" -> "LEFT"
      [] dir = "left" -> "RIGHT"
      [] dir = "down" -> "UP"
      [] dir = "up" -> "DOWN"
      [] OTHER -> dir

oppositeDirection(dir) ==
    CASE dir = "RIGHT" -> "LEFT"
      [] dir = "LEFT" -> "RIGHT"
      [] dir = "DOWN" -> "UP"
      [] dir = "UP" -> "DOWN"

\* The propagation delay an element of a type has when constructed
DefaultDelay(type) == IF type \in {"Input", "Output"} THEN 0 ELSE 10

\* The node properties an element of a type is constructed with: for each
\* property whether it is an array and how many nodes it has
NodeProperties(type) ==
    CASE type = "Input" -> [output1 |-> [array |-> FALSE, n |-> 1]]
      [] type = "Output" -> [inp1 |-> [array |-> FALSE, n |-> 1]]
      [] type = "SubCircuit" -> [inputNodes |-> [array |-> TRUE, n |-> 1],
                                 outputNodes |-> [array |-> TRUE, n |-> 1]]
      [] OTHER -> [inp |-> [array |-> TRUE, n |-> 2],
                   output1 |-> [array |-> FALSE, n |-> 1]]

\* Node properties in the order Object.keys visits them
PropertyOrder == <<"inp", "inp1", "inputNodes", "output1", "outputNodes">>

\* A saved element record. direction is the constructor parameter saved in
\* customData.constructorParamaters; labelDirection and propagationDelay are
\* <<>> when the record has none; nodes is customData.nodes: for each
\* property the indices (from 0) into allNodes, or <<>> when absent
ModuleDoc(objectType, direction, label, labelDirection, propagationDelay, values, nodes, subcircuitMetadata) ==
    [objectType |-> objectType, direction |-> direction, label |-> label,
     labelDirection |-> labelDirection, propagationDelay |-> propagationDelay,
     values |-> values, nodes |-> nodes, subcircuitMetadata |-> subcircuitMetadata]

\* The id of the next node constructed in a scope whose nodes are these
FreshNodeId(nodes) ==
    IF nodes = <<>> THEN 1
    ELSE 1 + CHOOSE m \in {nodes[k].id : k \in 1..Len(nodes)} :
                \A k \in 1..Len(nodes) : nodes[k].id <= m

\* The node properties of a type in the order they are constructed and
\* Object.keys visits them
PropertiesOf(type) ==
    SelectSeq(PropertyOrder, LAMBDA q : q \in DOMAIN NodeProperties(type))

\* new modules[type](x, y, scope, ...): the constructor makes the element's
\* own nodes, which join scope.allNodes with the element as parent; ps are
\* the properties still to construct, acc the ones constructed
RECURSIVE ConstructNodes(_, _, _, _)
ConstructNodes(type, ps, nodes, acc) ==
    IF ps = <<>> THEN [allNodes |-> nodes, nodes |-> acc]
    ELSE LET q == Head(ps)
             base == FreshNodeId(nodes)
             ids == [k \in 1..NodeProperties(type)[q].n |-> base + k - 1]
             kind == IF q \in {"output1", "outputNodes"} THEN 1 ELSE 0
             fresh == [k \in 1..Len(ids) |-> Node(ids[k], kind, FALSE, {})]
         IN  ConstructNodes(type, Tail(ps), nodes \o fresh, MapSet(acc, q, ids))

\* replace(node, index): the constructed node is deleted and the node at
\* index in scope.allNodes takes its place, with the element as parent
replace(nodes, id, index) ==
    LET left == SelectSeq(nodes, LAMBDA x : x.id # id)
    IN  [allNodes |-> [k \in 1..Len(left) |->
                          IF k = index + 1 THEN [left[k] EXCEPT !.parentCE = FALSE]
                          ELSE left[k]],
         node |-> left[index + 1].id]

\* Lines 69-71, from position i of an array property on: ids are the
\* property's nodes, n the saved indices
RECURSIVE ReplacePropertyFrom(_, _, _, _)
ReplacePropertyFrom(nodes, ids, n, i) ==
    IF i > Len(n) THEN [allNodes |-> nodes, ids |-> ids]
    ELSE LET r == replace(nodes, ids[i], n[i])
         IN  ReplacePropertyFrom(r.allNodes, [ids EXCEPT ![i] = r.node], n, i + 1)

\* Mutant: the constructed nodes are kept
ReplacePropertyKeep(nodes, ids, n) == [allNodes |-> nodes, ids |-> ids]

\* Lines 68-74 for one property: element-wise for an array, the single node
\* otherwise
ReplaceProperty(nodes, ids, n) == ReplacePropertyFrom(nodes, ids, n, 1)

\* Lines 64-77: every property customData.nodes names, in key order
RECURSIVE ReplaceNodes(_, _, _, _)
ReplaceNodes(nodes, own, saved, ps) ==
    IF ps = <<>> THEN [allNodes |-> nodes, nodes |-> own]
    ELSE LET q == Head(ps)
             r == ReplaceProperty(nodes, own[q], saved[q])
         IN  ReplaceNodes(r.allNodes, [own EXCEPT ![q] = r.ids], saved, Tail(ps))

\* Mutant: the label direction is the element's own orientation
LabelDirectionSame(d) ==
    IF d.labelDirection # <<>> THEN d.labelDirection[1]
    ELSE fixDirection(d.direction)

\* Line 44: data.labelDirection || oppositeDirection[fixDirection[obj.direction]]
LabelDirection(d) ==
    IF d.labelDirection # <<>> THEN d.labelDirection[1]
    ELSE oppositeDirection(fixDirection(d.direction))

\* Mutant: a saved delay of 0 is taken as absent
PropagationDelayFalsyZero(d, type) ==
    IF d.propagationDelay # <<>> /\ d.propagationDelay[1] # 0
    THEN d.propagationDelay[1]
    ELSE DefaultDelay(type)

\* Lines 47-51
PropagationDelay(d, type) ==
    IF d.propagationDelay = <<0>> THEN 0
    ELSE IF d.propagationDelay # <<>> /\ d.propagationDelay[1] # 0
         THEN d.propagationDelay[1]
         ELSE DefaultDelay(type)

\* loadModule(data, scope) for a record whose rectified tag can be
\* constructed: the element, and scope.allNodes afterwards
loadModule(d, nodes) ==
    LET type == rectifyObjectType(d.objectType)
        c == ConstructNodes(type, PropertiesOf(type), nodes, EmptyMap)
        r == IF d.nodes # <<>>
             THEN ReplaceNodes(c.allNodes, c.nodes, d.nodes[1],
                               SelectSeq(PropertyOrder, LAMBDA q : q \in DOMAIN d.nodes[1]))
             ELSE c
    IN  [obj |-> [objectType |-> type, label |-> d.label,
                  labelDirection |-> LabelDirection(d),
                  propagationDelay |-> PropagationDelay(d, type),
                  direction |-> fixDirection(d.direction),
                  values |-> d.values,
                  nodes |-> r.nodes,
                  subcircuitMetadata |-> d.subcircuitMetadata,
                  layoutProperties |-> <<>>],
         allNodes |-> r.allNodes]

\* Type tags found in saved records: current ones, retired ones, and one
\* that names no element type
SavedTags == {"Input", "Output", "AndGate", "DflipFlop", "Rom", "FlipFlop", "Ram", "Bogus"}

\* The nodes of a scope after loadNode and constructNodeConnections and
\* before any module is loaded: their parent is the scope's root
BuiltNodes == <<Node(1, 0, TRUE, {3}), Node(2, 0, TRUE, {}), Node(3, 1, TRUE, {1})>>

\* customData.nodes of a record of a type, naming nodes of BuiltNodes
SavedNodes(type) ==
    [q \in DOMAIN NodeProperties(type) |->
        CASE q = "inp" -> <<0, 1>>
          [] q \in {"inp1", "inputNodes"} -> <<0>>
          [] OTHER -> <<2>>]

\* A scope's element lists before any module is loaded
NoElements == [t \in ModuleTypes |-> <<>>]

\* loadModule(data, scope) applied to the record in data; an unknown tag makes
\* new modules[...] throw before anything is changed
LoadModuleAct ==
    /\ ld.pc = "module"
    /\ LET type == rectifyObjectType(data.objectType)
       IN  IF type \in ModuleTypes
           THEN LET r == loadModule(data, allNodes)
                IN  /\ allNodes' = r.allNodes
                    /\ newScope' = [newScope EXCEPT ![type] = Append(@, r.obj)]
                    /\ ld' = [ld EXCEPT !.pc = "loaded"]
           ELSE /\ ld' = [ld EXCEPT !.pc = "threw"]
                /\ UNCHANGED <<allNodes, newScope>>
    /\ UNCHANGED <<scopeList, globalScope, folderVars, rbn, data>>

InitModule ==
    /\ \E t \in SavedTags, dir \in Directions \cup LegacyDirections,
          ldir \in Some(Directions), delay \in Some({0, 5}),
          values \in Some({[state |-> 1]}), saved \in BOOLEAN :
            data = ModuleDoc(t, dir, "L", ldir, delay, values,
                             IF saved THEN <<SavedNodes(rectifyObjectType(t))>> ELSE <<>>,
                             <<>>)
    /\ ld = [pc |-> "module", i |-> 0]
    /\ allNodes = BuiltNodes
    /\ newScope = NoElements
    /\ rbn = IdleRbn
    /\ scopeList = EmptyMap
    /\ globalScope = Undefined
    /\ folderPanelContainer = FALSE
    /\ folders = <<>>
    /\ subcircuitMap = EmptyMap
    /\ nextId = 1
    /\ tree = NoTree
    /\ fx = NoFx
    /\ drag = NoDrag

NextModule == LoadModuleAct

SpecModule == InitModule /\ [][NextModule]_vars

\* The element loadModule has just constructed
Loaded == newScope[rectifyObjectType(data.objectType)][1]

\* C17: rectifyObjectType maps 'FlipFlop' to 'DflipFlop' and 'Ram' to 'Rom',
\* returns any other tag unchanged and is idempotent; the element loadModule
\* constructs has the rectified tag as its type.
C17_RectifiedTagConstructs ==
    LET t == data.objectType
    IN  /\ t = "FlipFlop" => rectifyObjectType(t) = "DflipFlop"
        /\ t = "Ram" => rectifyObjectType(t) = "Rom"
        /\ t \notin {"FlipFlop", "Ram"} => rectifyObjectType(t) = t
        /\ rectifyObjectType(rectifyObjectType(t)) = rectifyObjectType(t)
        /\ ld.pc = "loaded" =>
              /\ Loaded.objectType = (IF t = "FlipFlop" THEN "DflipFlop"
                                      ELSE IF t = "Ram" THEN "Rom" ELSE t)
              /\ \A u \in ModuleTypes :
                    Len(newScope[u]) = (IF u = Loaded.objectType THEN 1 ELSE 0)

C17_Witness ==
    ld.pc = "loaded" /\ data.objectType = "FlipFlop" /\ Len(newScope["DflipFlop"]) = 1

\* C18: after loadModule a record with propagationDelay 0 gives delay 0, a
\* record without propagationDelay gives the type's default delay, a record
\* with a non-zero delay gives that delay.
C18_PropagationDelay ==
    ld.pc = "loaded" =>
        /\ data.propagationDelay = <<0>> => Loaded.propagationDelay = 0
        /\ data.propagationDelay = <<>> =>
              Loaded.propagationDelay = DefaultDelay(Loaded.objectType)
        /\ (data.propagationDelay # <<>> /\ data.propagationDelay[1] # 0) =>
              Loaded.propagationDelay = data.propagationDelay[1]

C18_Witness ==
    /\ ld.pc = "loaded" /\ data.propagationDelay = <<0>>
    /\ DefaultDelay(Loaded.objectType) # 0 /\ Loaded.propagationDelay = 0

\* C19: after loadModule an element whose record has a labelDirection has
\* that one; an element whose record has none has the direction opposite to
\* its own orientation, the orientation taken in canonical form.
C19_LabelDirection ==
    ld.pc = "loaded" =>
        /\ data.labelDirection # <<>> => Loaded.labelDirection = data.labelDirection[1]
        /\ data.labelDirection = <<>> =>
              /\ Loaded.direction \in Directions
              /\ Loaded.labelDirection \in Directions
              /\ Loaded.labelDirection # Loaded.direction
              /\ oppositeDirection(Loaded.labelDirection) = Loaded.direction

C19_Witness ==
    /\ ld.pc = "loaded" /\ data.labelDirection = <<>>
    /\ data.direction \in LegacyDirections

----------------------------------------------------------------------------
(* Serialized documents given to load *)

\* A layout record as a saved project stores it, without a title flag
StoredLayout == [width |-> 120, height |-> 60, title_x |-> 60, title_y |-> 13]

\* data.layout of a scope document: absent, or stored without or with
\* titleEnabled
DocLayouts ==
    {<<>>, <<StoredLayout>>,
     <<MapSet(StoredLayout, "titleEnabled", FALSE)>>,
     <<MapSet(StoredLayout, "titleEnabled", TRUE)>>}

\* data.verilogMetadata of a scope document
DocVerilogMetadatas ==
    {<<>>, <<[isVerilogCircuit |-> TRUE, isMainCircuit |-> TRUE, code |-> "module m"]>>}

\* data.restrictedCircuitElementsUsed of a scope document
DocRestricted == {<<>>, <<(<<"AndGate">>)>>}

\* data.testbenchData of a scope document that has a test attached
DocTestbenchData == [testData |-> "t", currentGroup |-> 0, currentCase |-> 0]

\* A saved node: its type and the indices (from 0) into allNodes of the
\* nodes it is connected to
NodeDoc(type, connections) == [type |-> type, connections |-> connections]

\* A saved Input or Output element: customData.nodes names its node by its
\* index (from 0) into allNodes
ElementDoc(objectType, node) == [objectType |-> objectType, node |-> node]

\* The circuits of the scope documents: an empty one, and one with two
\* inputs, one output, a saved node that no element refers to, and a test
DocCircuits ==
    {[allNodes |-> <<>>, Input |-> <<>>, Output |-> <<>>, testbenchData |-> <<>>],
     [allNodes |-> <<NodeDoc(1, {2}), NodeDoc(1, {}), NodeDoc(0, {0}), NodeDoc(0, {})>>,
      Input |-> <<ElementDoc("Input", 0), ElementDoc("Input", 1)>>,
      Output |-> <<ElementDoc("Output", 2)>>,
      testbenchData |-> <<DocTestbenchData>>]}

ScopeDoc(id, circuit, layout, verilogMetadata, restricted) ==
    [id |-> id, name |-> IF circuit.allNodes = <<>> THEN "" ELSE "Main",
     allNodes |-> circuit.allNodes, Input |-> circuit.Input, Output |-> circuit.Output,
     layout |-> layout, verilogMetadata |-> verilogMetadata,
     restrictedCircuitElementsUsed |-> restricted,
     testbenchData |-> circuit.testbenchData]

\* moduleList: the element types in the order loadScope visits them
moduleList == <<"Input", "Output", "AndGate", "SubCircuit">>

\* A saved SubCircuit record: the scope it instantiates and the indices
\* (from 0) of its nodes in allNodes
SubCircuitDoc(id, inputNodes, outputNodes) ==
    [objectType |-> "SubCircuit", id |-> id,
     inputNodes |-> inputNodes, outputNodes |-> outputNodes]

\* The project document was not supplied (load(undefined))
AbsentData == [absent |-> TRUE]

IsAbsent(d) == "absent" \in DOMAIN d

----------------------------------------------------------------------------
(* loadScope *)

\* The scope newCircuit creates and registers: empty collections, the
\* default layout, the flags it was given
newCircuit(name, id, isVerilog, isMain) ==
    [id |-> id, name |-> name,
     allNodes |-> <<>>, wires |-> <<>>,
     Input |-> <<>>, Output |-> <<>>, AndGate |-> <<>>, DflipFlop |-> <<>>,
     Rom |-> <<>>, SubCircuit |-> <<>>,
     layout |-> [width |-> 100, height |-> 40, title_x |-> 50, title_y |-> 13,
                 titleEnabled |-> TRUE],
     verilogMetadata |-> [isVerilogCircuit |-> isVerilog, isMainCircuit |-> isMain,
                          code |-> "// Write Some Verilog Code Here!"],
     restrictedCircuitElementsUsed |-> <<(<<>>)>>,
     testbenchData |-> <<>>]

\* Lines 111-128: the nodes built by loadNode with the scope's root as parent,
\* connected as saved, then given to the elements whose records name them
LoadedNodes(d) ==
    LET owned == {d.Input[k].node + 1 : k \in 1..Len(d.Input)}
                 \cup {d.Output[k].node + 1 : k \in 1..Len(d.Output)}
    IN  [k \in 1..Len(d.allNodes) |->
            Node(k, d.allNodes[k].type, k \notin owned,
                 {c + 1 : c \in d.allNodes[k].connections})]

\* loadModule for the records of one type: the live elements
LoadedElements(records) ==
    [k \in 1..Len(records) |->
        [objectType |-> records[k].objectType, node |-> records[k].node + 1,
         layoutProperties |-> <<>>]]

Max(a, b) == IF a >= b THEN a ELSE b

\* Mutant: the height grows with the sum of the two counts
SynthesizedLayoutSum(nInput, nOutput) ==
    [width |-> 100, height |-> (nInput + nOutput) * 20 + 20,
     title_x |-> 50, title_y |-> 13]

\* Lines 156-161
SynthesizedLayout(nInput, nOutput) ==
    [width |-> 100, height |-> Max(nInput, nOutput) * 20 + 20,
     title_x |-> 50, title_y |-> 13]

\* Mutant: the ports are stacked from the top edge
WithLayoutPropertiesFromTop(elements, layout, x, n) ==
    [k \in 1..Len(elements) |->
        [elements[k] EXCEPT !.layoutProperties =
            <<[x |-> x, y |-> 20 * (k - 1), id |-> generateId(n + k - 1)]>>]]

\* Lines 164-179: copies of the elements with fresh layoutProperties; x is 0
\* for inputs and layout.width for outputs, n is the first id number to use
WithLayoutProperties(elements, layout, x, n) ==
    [k \in 1..Len(elements) |->
        [elements[k] EXCEPT !.layoutProperties =
            <<[x |-> x,
               y |-> (layout.height \div 2) - Len(elements) * 10 + 20 * (k - 1) + 10,
               id |-> generateId(n + k - 1)]>>]]

\* Mutant: the title flag is set whatever the layout says
WithTitleEnabledAlways(layout) == MapSet(layout, "titleEnabled", TRUE)

\* Lines 183-185: a layout without titleEnabled gets titleEnabled true
WithTitleEnabled(layout) ==
    IF "titleEnabled" \in DOMAIN layout
    THEN layout ELSE MapSet(layout, "titleEnabled", TRUE)

\* data[type] of a scope document: no records when the document has none
Records(d, type) == IF type \in DOMAIN d THEN d[type] ELSE <<>>

\* Mutant: a record whose tag names no constructor is passed over
RecordThrowsSubCircuitOnly(type, rec, sl) ==
    type = "SubCircuit" /\ rec.id \notin DOMAIN sl

\* Mutant: a SubCircuit of a scope that does not exist yet is accepted
RecordThrowsTagOnly(type, rec, sl) ==
    type # "SubCircuit" /\ rectifyObjectType(rec.objectType) \notin ModuleTypes

\* The record stops loadScope with an exception: new modules[tag] for a tag
\* that names no constructor (line 40), or a SubCircuit of a scope that
\* scopeList sl does not hold
RecordThrows(type, rec, sl) ==
    IF type = "SubCircuit" THEN rec.id \notin DOMAIN sl
    ELSE rectifyObjectType(rec.objectType) \notin ModuleTypes

\* Lines 116-128 reach a record that throws
LoadScopeThrows(d, sl) ==
    \E t \in 1..Len(moduleList) : \E k \in 1..Len(Records(d, moduleList[t])) :
        RecordThrows(moduleList[t], Records(d, moduleList[t])[k], sl)

\* The records of a type that lines 116-128 load: all of them, or those the
\* loops visit before the first record that throws
RecordsLoaded(d, type, sl) ==
    LET recs == Records(d, type)
        bad(t) == {k \in 1..Len(Records(d, moduleList[t])) :
                      RecordThrows(moduleList[t], Records(d, moduleList[t])[k], sl)}
        ti == CHOOSE t \in 1..Len(moduleList) : moduleList[t] = type
    IN  IF \E t \in 1..(ti - 1) : bad(t) # {} THEN <<>>
        ELSE IF bad(ti) # {}
        THEN SubSeq(recs, 1, (CHOOSE k \in bad(ti) : \A c \in bad(ti) : k <= c) - 1)
        ELSE recs

\* loadSubCircuit for the SubCircuit records: the live elements
LoadedSubCircuits(records) ==
    [k \in 1..Len(records) |->
        [objectType |-> "SubCircuit", id |-> records[k].id, layoutProperties |-> <<>>]]

\* loadScope(scope, data) with generateId at n and scopeList sl: the scope it
\* was given as it is afterwards, the object it returns (or has built when
\* it throws), generateId's next number, and whether it threw.
\* newScope is a shallow copy (lines 105-108): the arrays allNodes, Input,
\* Output and the other element lists are shared with scope, so what is
\* pushed to or removed from them shows in both; the properties assigned
\* later go to newScope alone.
loadScope(scope, d, n, sl) ==
    LET threw == LoadScopeThrows(d, sl)
        dl == [d EXCEPT !.Input = RecordsLoaded(d, "Input", sl),
                        !.Output = RecordsLoaded(d, "Output", sl)]
        nodes == IF threw THEN LoadedNodes(dl) ELSE removeBugNodes(LoadedNodes(dl))
        ins == LoadedElements(dl.Input)
        outs == LoadedElements(dl.Output)
        shared == [scope EXCEPT !.allNodes = nodes, !.Input = ins, !.Output = outs,
                                !.AndGate = LoadedElements(RecordsLoaded(d, "AndGate", sl)),
                                !.SubCircuit =
                                    LoadedSubCircuits(RecordsLoaded(d, "SubCircuit", sl))]
        synth == d.layout = <<>>
        layout0 == IF synth THEN SynthesizedLayout(Len(ins), Len(outs)) ELSE d.layout[1]
        layout1 == WithTitleEnabled(layout0)
        copied == [shared EXCEPT
                      !.restrictedCircuitElementsUsed = d.restrictedCircuitElementsUsed]
        built ==
            [copied EXCEPT
                !.verilogMetadata = IF d.verilogMetadata # <<>> THEN d.verilogMetadata[1] ELSE @,
                !.testbenchData = IF d.testbenchData # <<>> THEN d.testbenchData ELSE @,
                !.layout = layout1,
                !.Input = IF synth THEN WithLayoutProperties(ins, layout0, 0, n) ELSE ins,
                !.Output = IF synth
                           THEN WithLayoutProperties(outs, layout0, layout0.width, n + Len(ins))
                           ELSE outs]
    IN  [scope |-> shared, newScope |-> IF threw THEN copied ELSE built,
         nextId |-> IF synth /\ ~threw THEN n + Len(ins) + Len(outs) ELSE n,
         threw |-> threw]

----------------------------------------------------------------------------
(* load *)

\* A call load makes to a collaborator
Call(fn, arg) == [fn |-> fn, arg |-> arg]

\* data.name of a project document, and the default project name
ProjectName == "Project"
DefaultProjectName == "Untitled"

\* load's locals and what its collaborators hold when load starts: the
\* clock as the simulator starts it, the tab of the default scope
StartLd ==
    [pc |-> "start", i |-> 0, calls |-> <<>>, projectName |-> Undefined,
     timePeriod |-> 500, clockEnabled |-> TRUE, tabs |-> <<ScopeId>>]

\* The default scope a fresh simulator holds before load
DefaultScope == newCircuit("Main", ScopeId, FALSE, FALSE)

\* Mutant: the scope list is emptied whatever the document
ResetScopeListAlways(d, sl) == EmptyMap

\* Lines 199-208: resetScopeList() is reached only with a document
ResetScopeList(d, sl) == IF IsAbsent(d) THEN sl ELSE EmptyMap

\* Lines 199-209: the new-project path, or the reset before the loop
LoadBeginAct ==
    /\ ld.pc = "start"
    /\ IF IsAbsent(data)
       THEN /\ ld' = [ld EXCEPT !.pc = "done", !.projectName = DefaultProjectName,
                                !.calls = Append(@, Call("setProjectName", DefaultProjectName))]
            /\ UNCHANGED globalScope
       ELSE /\ ld' = [ld EXCEPT !.pc = "loop", !.projectName = data.name, !.tabs = <<>>,
                                !.calls = @ \o <<Call("setProjectName", data.name),
                                                 Call("resetScopeList", "")>>]
            /\ globalScope' = Undefined
    /\ scopeList' = ResetScopeList(data, scopeList)
    /\ UNCHANGED <<folderVars, rbnVars, data, newScope>>

\* Mutant: the simulation pass comes before the reconstruction, and the
\* backup is scheduled twice
ScopeCallsUpdateFirst(id) ==
    <<Call("newCircuit", id), Call("update", id), Call("loadScope", id),
      Call("centerFocus", id), Call("scheduleBackup", id),
      Call("updateRestrictedElementsInScope", id), Call("scheduleBackup", id)>>

\* Lines 220-237: the calls of one iteration of the loop, for the scope
\* document of id
ScopeCalls(id) ==
    <<Call("newCircuit", id), Call("loadScope", id), Call("centerFocus", id),
      Call("update", id), Call("updateRestrictedElementsInScope", id),
      Call("scheduleBackup", id)>>

\* Lines 212-238: one iteration of the loop over data.scopes. An exception
\* of loadScope is not caught: it leaves load after line 223, with the scope
\* that newCircuit registered as far as loadScope had built it.
LoadScopeAct ==
    /\ ld.pc = "loop"
    /\ ld.i < Len(data.scopes)
    /\ LET d == data.scopes[ld.i + 1]
           isVerilogCircuit ==
               IF d.verilogMetadata # <<>> THEN d.verilogMetadata[1].isVerilogCircuit ELSE FALSE
           isMainCircuit ==
               IF d.verilogMetadata # <<>> THEN d.verilogMetadata[1].isMainCircuit ELSE FALSE
           scope == newCircuit(IF d.name # "" THEN d.name ELSE "Untitled", d.id,
                               isVerilogCircuit, isMainCircuit)
           r == loadScope(scope, d, nextId, MapSet(scopeList, d.id, scope))
       IN  /\ scopeList' = MapSet(scopeList, d.id, r.scope)
           /\ newScope' = r.newScope
           /\ nextId' = r.nextId
           /\ IF r.threw
              THEN /\ globalScope' = globalScope
                   /\ ld' = [ld EXCEPT !.pc = "threw", !.tabs = Append(@, d.id),
                                       !.calls = @ \o SubSeq(ScopeCalls(d.id), 1, 2)]
              ELSE /\ globalScope' = d.id
                   /\ ld' = [ld EXCEPT !.i = @ + 1, !.tabs = Append(@, d.id),
                                       !.calls = @ \o ScopeCalls(d.id)]
    /\ UNCHANGED <<folderPanelContainer, folders, subcircuitMap, tree, fx, drag, rbnVars,
                   data>>

\* $('#tabsBar').append(unorderedTabs.filter('#' + tab)) for each saved tab:
\* the tabs named by orderedTabs, in that order
ReorderTabs(tabs, orderedTabs) ==
    SelectSeq(orderedTabs, LAMBDA t : t \in Range(tabs))

\* Mutant: the saved focus is not restored
FocussedScopeKept(d, current) == current

\* Lines 256-257: switchCircuit makes the scope named by data.focussedCircuit
\* the active one; without the field the active scope stays
FocussedScope(d, current) ==
    IF d.focussedCircuit # <<>> THEN d.focussedCircuit[1] ELSE current

\* Lines 241-267: what follows the loop
LoadEndAct ==
    /\ ld.pc = "loop"
    /\ ~(ld.i < Len(data.scopes))
    /\ ld' = [ld EXCEPT
                !.pc = "done",
                !.timePeriod = IF data.timePeriod # <<>> /\ data.timePeriod[1] # 0
                               THEN data.timePeriod[1] ELSE 500,
                !.clockEnabled = IF data.clockEnabled = <<>> THEN TRUE
                                 ELSE data.clockEnabled[1],
                !.tabs = IF data.orderedTabs # <<>>
                         THEN ReorderTabs(@, data.orderedTabs[1]) ELSE @,
                !.calls = @ \o (IF data.focussedCircuit # <<>>
                                THEN <<Call("switchCircuit", data.focussedCircuit[1])>>
                                ELSE <<>>)
                           \o <<Call("updateTestbenchUI", ""), Call("scheduleUpdate", "")>>]
    /\ globalScope' = FocussedScope(data, globalScope)
    /\ UNCHANGED <<scopeList, folderVars, rbnVars, data, newScope>>

\* The scope documents of a project: one per scope id, in ScopeOrder
ScopeDocs(id) ==
    {ScopeDoc(id, c, l, v, IF v = <<>> THEN <<>> ELSE <<(<<"AndGate">>)>>) :
        c \in DocCircuits, l \in DocLayouts, v \in DocVerilogMetadatas}

InitLoad ==
    /\ \/ data = AbsentData
       \/ \E n \in 0..Len(ScopeOrder) :
          \E ds \in [1..n -> UNION {ScopeDocs(ScopeOrder[k]) : k \in 1..n}] :
             /\ \A k \in 1..n : ds[k].id = ScopeOrder[k]
             /\ \E tp \in Some({0, 1000}), ce \in Some(BOOLEAN),
                   ot \in Some({[k \in 1..n |-> ScopeOrder[n + 1 - k]]}),
                   fc \in Some({ScopeOrder[k] : k \in 1..n} \cap {ScopeId}) :
                   data = [name |-> ProjectName, scopes |-> ds, timePeriod |-> tp,
                           clockEnabled |-> ce, orderedTabs |-> ot, focussedCircuit |-> fc]
    /\ ld = StartLd
    /\ newScope = NoScope
    /\ scopeList = MapSet(EmptyMap, ScopeId, DefaultScope)
    /\ globalScope = ScopeId
    /\ folderPanelContainer = FALSE
    /\ folders = <<>>
    /\ subcircuitMap = EmptyMap
    /\ nextId = 1
    /\ tree = NoTree
    /\ fx = NoFx
    /\ drag = NoDrag
    /\ allNodes = <<>>
    /\ rbn = IdleRbn

NextLoad == LoadBeginAct \/ LoadScopeAct \/ LoadEndAct

SpecLoad == InitLoad /\ [][NextLoad]_vars

\* A circuit whose AndGate record carries a type tag that names no element
\* type, after an Input record that can be built
CorruptCircuit ==
    [allNodes |-> <<NodeDoc(1, {}), NodeDoc(0, {})>>,
     Input |-> <<ElementDoc("Input", 0)>>, Output |-> <<>>,
     AndGate |-> <<ElementDoc("Bogus", 1)>>, testbenchData |-> <<>>]

\* A circuit that holds one SubCircuit of the scope id
ReferringCircuit(id) ==
    [allNodes |-> <<>>, Input |-> <<>>, Output |-> <<>>,
     SubCircuit |-> <<SubCircuitDoc(id, <<>>, <<>>)>>, testbenchData |-> <<>>]

\* The scope document of id with the records of circuit, whatever element
\* types it has
ScopeDocOf(id, circuit, layout) ==
    LET base == ScopeDoc(id, circuit, layout, <<>>, <<>>)
    IN  [k \in DOMAIN base \cup DOMAIN circuit |->
            IF k \in DOMAIN base THEN base[k] ELSE circuit[k]]

\* Projects of one or two scopes, listed in either order of their ids; a
\* scope may hold a SubCircuit of the other scope or a corrupt record
InitLoadOrder ==
    /\ \E ids \in {ScopeOrder, <<ScopeOrder[2], ScopeOrder[1]>>}, n \in 1..2 :
       \E ds \in [1..n -> UNION {{ScopeDocOf(ids[k], c, l) :
                                    c \in DocCircuits
                                          \cup {CorruptCircuit, ReferringCircuit(ids[3 - k])},
                                    l \in {<<>>, <<StoredLayout>>}} : k \in 1..n}] :
          /\ \A k \in 1..n : ds[k].id = ids[k]
          /\ \E fc \in Some({ids[1]}) :
                data = [name |-> ProjectName, scopes |-> ds, timePeriod |-> <<>>,
                        clockEnabled |-> <<>>, orderedTabs |-> <<>>, focussedCircuit |-> fc]
    /\ ld = StartLd
    /\ newScope = NoScope
    /\ scopeList = MapSet(EmptyMap, ScopeId, DefaultScope)
    /\ globalScope = ScopeId
    /\ folderPanelContainer = FALSE
    /\ folders = <<>>
    /\ subcircuitMap = EmptyMap
    /\ nextId = 1
    /\ tree = NoTree
    /\ fx = NoFx
    /\ drag = NoDrag
    /\ allNodes = <<>>
    /\ rbn = IdleRbn

SpecLoadOrder == InitLoadOrder /\ [][NextLoad]_vars

----------------------------------------------------------------------------
(* Claims about load *)

\* The positions in load's calls of the call of fn for the scope id
Positions(fn, id) == {p \in 1..Len(ld.calls) : ld.calls[p] = Call(fn, id)}

\* The positions in load's calls of the calls the loop over the scope
\* documents made for the scope id
PositionsOf(id) ==
    {p \in 1..Len(ld.calls) :
        /\ ld.calls[p].arg = id
        /\ ld.calls[p].fn \in {"newCircuit", "loadScope", "centerFocus", "update",
                               "updateRestrictedElementsInScope", "scheduleBackup"}}

\* id of the k-th scope document
DocId(k) == data.scopes[k].id

\* C21: load resets the scope list before it creates any scope; the scope
\* documents are handled in document order; for each one the scope is
\* created, then reconstructed, then made the active scope, with exactly one
\* simulation update and exactly one scheduleBackup after the
\* reconstruction, and everything done for one scope document precedes
\* everything done for the next; nothing is done for a scope document
\* before the ones ahead of it are complete.
C21_ScopesInDocumentOrder ==
    ~IsAbsent(data) =>
        /\ \A q \in 1..Len(ld.calls) :
              ld.calls[q].fn = "newCircuit" =>
                  \E p \in 1..(q - 1) : ld.calls[p].fn = "resetScopeList"
        /\ \A k \in 1..Len(data.scopes) :
              IF k <= ld.i
              THEN /\ \A fn \in {"newCircuit", "loadScope", "update", "scheduleBackup"} :
                         Cardinality(Positions(fn, DocId(k))) = 1
                   /\ \A c \in Positions("newCircuit", DocId(k)),
                         l \in Positions("loadScope", DocId(k)),
                         u \in Positions("update", DocId(k)),
                         b \in Positions("scheduleBackup", DocId(k)) :
                         c < l /\ l < u /\ l < b
                   /\ \A j \in 1..(k - 1) :
                         \A p \in PositionsOf(DocId(j)), q \in PositionsOf(DocId(k)) : p < q
              ELSE PositionsOf(DocId(k)) = {}
        /\ (ld.pc = "loop" /\ ld.i >= 1) => globalScope = DocId(ld.i)

C21_Witness ==
    /\ ld.pc = "done" /\ ~IsAbsent(data)
    /\ Len(data.scopes) = 2
    /\ Positions("scheduleBackup", DocId(2)) # {}

\* The document's layout fields are the scope's
HasLayout(scope, layout) ==
    \A f \in DOMAIN layout : f \in DOMAIN scope.layout /\ scope.layout[f] = layout[f]

\* The scope holds what loadScope reconstructs from scope document d
CarriesReconstructedState(scope, d) ==
    /\ IF d.layout # <<>>
       THEN HasLayout(scope, d.layout[1])
       ELSE HasLayout(scope, SynthesizedLayout(Len(d.Input), Len(d.Output)))
    /\ "titleEnabled" \in DOMAIN scope.layout
    /\ d.verilogMetadata # <<>> => scope.verilogMetadata = d.verilogMetadata[1]
    /\ d.restrictedCircuitElementsUsed # <<>> =>
           scope.restrictedCircuitElementsUsed = d.restrictedCircuitElementsUsed

\* C1: after load(data) has completed for a project document, the scope that
\* newCircuit created for each scope document and that was made the active
\* scope has the document's layout (the synthesized one when the document
\* has none) with titleEnabled defined, and the document's verilogMetadata
\* and restrictedCircuitElementsUsed when the document has them.
C1_LoadedScopeCarriesReconstructedState ==
    (ld.pc = "done" /\ ~IsAbsent(data)) =>
        \A k \in 1..Len(data.scopes) :
            CarriesReconstructedState(scopeList[data.scopes[k].id], data.scopes[k])

\* The scope document holds an element record whose type tag, once
\* rectified, is the name of no element type
HasUnknownTag(d) ==
    \E t \in 1..Len(moduleList) :
        /\ moduleList[t] # "SubCircuit"
        /\ moduleList[t] \in DOMAIN d
        /\ \E k \in 1..Len(d[moduleList[t]]) :
              rectifyObjectType(d[moduleList[t]][k].objectType) \notin ModuleTypes

\* The layout newCircuit gives a scope
DefaultLayout == newCircuit("", ScopeId, FALSE, FALSE).layout

\* C22: a scope document with an element record whose rectified type tag
\* matches no constructible type makes loadScope and load fail: once
\* loadScope has been called for it, load has ended with the exception; its
\* iteration never completes and load never completes; the scope gets no
\* element for the record, no restored or synthesized layout, no update and
\* no backup; and no later scope document is created or handled.
C22_UnknownTagFailsLoad ==
    \A k \in 1..Len(data.scopes) :
        HasUnknownTag(data.scopes[k]) =>
            /\ ld.i < k
            /\ ld.pc # "done"
            /\ Positions("loadScope", DocId(k)) # {} =>
                  /\ ld.pc = "threw"
                  /\ ld.i = k - 1
                  /\ globalScope # DocId(k)
                  /\ scopeList[DocId(k)].layout = DefaultLayout
                  /\ newScope.layout = DefaultLayout
                  /\ \A t \in 1..Len(moduleList) :
                        \A e \in Range(scopeList[DocId(k)][moduleList[t]]) :
                            rectifyObjectType(e.objectType) \in ModuleTypes
            /\ \A fn \in {"centerFocus", "update", "updateRestrictedElementsInScope",
                          "scheduleBackup"} : Positions(fn, DocId(k)) = {}
            /\ \A j \in (k + 1)..Len(data.scopes) :
                  /\ ld.pc # "start" => DocId(j) \notin DOMAIN scopeList
                  /\ PositionsOf(DocId(j)) = {}

C22_Witness ==
    /\ ld.pc = "threw"
    /\ Len(data.scopes) = 2
    /\ HasUnknownTag(data.scopes[1])
    /\ ~HasUnknownTag(data.scopes[2])
    /\ Len(scopeList[DocId(1)].Input) = 1

\* The scope document holds a SubCircuit record of the scope id
Refers(d, id) ==
    "SubCircuit" \in DOMAIN d /\ \E k \in 1..Len(d.SubCircuit) : d.SubCircuit[k].id = id

\* The scope document holds no SubCircuit record and no record of an
\* unknown type
SelfContained(d) == ~HasUnknownTag(d) /\ "SubCircuit" \notin DOMAIN d

\* The project lists scope A at position a and scope B, which holds a
\* SubCircuit of A, at position b
ProjectOrder(a, b) ==
    /\ Len(data.scopes) = 2
    /\ SelfContained(data.scopes[a])
    /\ ~HasUnknownTag(data.scopes[b])
    /\ Refers(data.scopes[b], DocId(a))

\* C23: a project whose scope B holds a SubCircuit of scope A loads without
\* an exception when listed [A, B], B getting its SubCircuit element; listed
\* [B, A] the load always fails in B's loadScope, before A is created, and
\* never completes.
C23_DependencyOrder ==
    /\ ProjectOrder(1, 2) =>
          /\ ld.pc # "threw"
          /\ ld.pc = "done" =>
                /\ {DocId(1), DocId(2)} \subseteq DOMAIN scopeList
                /\ \E e \in Range(scopeList[DocId(2)].SubCircuit) : e.id = DocId(1)
    /\ ProjectOrder(2, 1) =>
          /\ ld.pc # "done"
          /\ ld.i = 0
          /\ Positions("loadScope", DocId(1)) # {} =>
                /\ ld.pc = "threw"
                /\ scopeList[DocId(1)].SubCircuit = <<>>
          /\ ld.pc # "start" => DocId(2) \notin DOMAIN scopeList
          /\ PositionsOf(DocId(2)) = {}

C23_Witness ==
    /\ ProjectOrder(2, 1)
    /\ ld.pc = "threw"

C23_WitnessLoaded ==
    /\ ProjectOrder(1, 2)
    /\ ld.pc = "done"

\* C24: after load(data) the clock period is data.timePeriod when the
\* document supplies it and 500 when it does not, and clockEnabled is
\* data.clockEnabled when supplied (false stays false) and true when not.
C24_ClockRestored ==
    (ld.pc = "done" /\ ~IsAbsent(data)) =>
        /\ ld.timePeriod = IF data.timePeriod # <<>> THEN data.timePeriod[1] ELSE 500
        /\ ld.clockEnabled = IF data.clockEnabled # <<>> THEN data.clockEnabled[1] ELSE TRUE

\* C25: after load(data) of a project with at least one scope, the active
\* scope is the one data.focussedCircuit names when the field is supplied,
\* and otherwise the scope of the last scope document.
C25_FocusAfterLoad ==
    (ld.pc = "done" /\ ~IsAbsent(data) /\ Len(data.scopes) >= 1) =>
        globalScope = IF data.focussedCircuit # <<>> THEN data.focussedCircuit[1]
                      ELSE DocId(Len(data.scopes))

C25_Witness ==
    /\ ld.pc = "done" /\ ~IsAbsent(data)
    /\ Len(data.scopes) = 2
    /\ data.focussedCircuit = <<DocId(1)>>
    /\ globalScope = DocId(1)

\* C26: load called without a document only sets the default project name:
\* the step leaves the scope list, the active scope, the clock settings and
\* the tab order as they were, creates and reconstructs no scope, calls
\* nothing but setProjectName, and ends load normally.
C26_AbsentDocumentOnlySetsName ==
    [][(IsAbsent(data) /\ ld.pc = "start") =>
          /\ ld'.pc = "done"
          /\ ld'.projectName = DefaultProjectName
          /\ ld'.calls = Append(ld.calls, Call("setProjectName", DefaultProjectName))
          /\ scopeList' = scopeList
          /\ globalScope' = globalScope
          /\ newScope' = newScope
          /\ ld'.timePeriod = ld.timePeriod
          /\ ld'.clockEnabled = ld.clockEnabled
          /\ ld'.tabs = ld.tabs]_vars

C26_Witness ==
    /\ IsAbsent(data)
    /\ ld.pc = "done"
    /\ ScopeId \in DOMAIN scopeList
    /\ ld.tabs = <<ScopeId>>

----------------------------------------------------------------------------
(* loadScope, statement by statement *)

MaxPorts == 2      \* Input records, and Output records, in a scope document

\* The increasing sequence of a set of numbers
RECURSIVE SortedSeq(_)
SortedSeq(S) ==
    IF S = {} THEN <<>>
    ELSE LET m == CHOOSE m \in S : \A c \in S : m <= c
         IN  <<m>> \o SortedSeq(S \ {m})

\* A scope document with nIn Input and nOut Output records, an AndGate
\* record, a SubCircuit record and a saved node no record refers to when
\* gate, sub and stray say so. Input k is wired to Output k, the gate's
\* output to the subcircuit's input. When shared, the gate's two inputs name
\* one saved node, and the subcircuit's input names the gate's output node.
CircuitDocument(nIn, nOut, gate, sub, stray, shared) ==
    LET g == nIn + nOut
        u == g + (IF gate THEN 3 ELSE 0)
        z == u + (IF sub THEN 2 ELSE 0)
        count == z + (IF stray THEN 1 ELSE 0)
        kind(k) ==
            IF k < nIn THEN 1
            ELSE IF k < g THEN 0
            ELSE IF k < u THEN (IF k = g + 2 THEN 1 ELSE 0)
            ELSE IF k < z THEN (IF k = u + 1 THEN 1 ELSE 0)
            ELSE 0
        E == {{k, nIn + k} : k \in {c \in 0..(nIn - 1) : c < nOut}}
             \cup (IF gate /\ sub /\ ~shared THEN {{g + 2, u}} ELSE {})
        ports ==
            [allNodes |-> [k \in 1..count |->
                              NodeDoc(kind(k - 1), {c \in 0..(count - 1) : {k - 1, c} \in E
                                                                          /\ c # k - 1})],
             Input |-> [k \in 1..nIn |->
                          ModuleDoc("Input", "RIGHT", "in", <<>>, <<>>, <<>>,
                                    <<[output1 |-> <<k - 1>>]>>, <<>>)],
             Output |-> [k \in 1..nOut |->
                          ModuleDoc("Output", "left", "out", <<"UP">>, <<0>>, <<>>,
                                    <<[inp1 |-> <<nIn + k - 1>>]>>, <<>>)]]
        gated ==
            IF gate
            THEN MapSet(ports, "AndGate",
                        <<ModuleDoc("AndGate", "RIGHT", "", <<>>, <<5>>, <<>>,
                                    <<[inp |-> IF shared THEN <<g, g>> ELSE <<g, g + 1>>,
                                       output1 |-> <<g + 2>>]>>, <<>>)>>)
            ELSE ports
    IN  IF sub
        THEN MapSet(gated, "SubCircuit",
                    <<SubCircuitDoc(OtherScopeId,
                                    IF shared /\ gate THEN <<g + 2>> ELSE <<u>>,
                                    <<u + 1>>)>>)
        ELSE gated

\* The scope document of id with a circuit and the optional properties
ScopeDocument(id, circuit, layout, verilogMetadata, restricted) ==
    [k \in DOMAIN circuit
           \cup {"id", "name", "layout", "verilogMetadata",
                 "restrictedCircuitElementsUsed", "testbenchData"} |->
        CASE k = "id" -> id
          [] k = "name" -> "Main"
          [] k = "layout" -> layout
          [] k = "verilogMetadata" -> verilogMetadata
          [] k = "restrictedCircuitElementsUsed" -> restricted
          [] k = "testbenchData" ->
                IF "AndGate" \in DOMAIN circuit THEN <<DocTestbenchData>> ELSE <<>>
          [] OTHER -> circuit[k]]

\* loadNode(data, scope): a node of the saved type joins scope.allNodes with
\* the scope's root as parent
loadNode(nodes, nd) == Append(nodes, Node(FreshNodeId(nodes), nd.type, TRUE, {}))

\* node.connect(n): the two nodes hold each other and a wire joins them
Connect(st, a, b) ==
    [allNodes |-> [k \in 1..Len(st.allNodes) |->
                      IF k = a THEN [st.allNodes[k] EXCEPT !.connections = @ \cup {st.allNodes[b].id}]
                      ELSE IF k = b THEN [st.allNodes[k] EXCEPT !.connections = @ \cup {st.allNodes[a].id}]
                      ELSE st.allNodes[k]],
     wires |-> Append(st.wires, [node1 |-> st.allNodes[a].id, node2 |-> st.allNodes[b].id,
                                 updated |-> FALSE])]

\* constructNodeConnections(node, data): node at position a is connected to
\* every saved neighbour it is not yet connected to; cs are the saved
\* indices still to visit
RECURSIVE constructNodeConnections(_, _, _)
constructNodeConnections(st, a, cs) ==
    IF cs = <<>> THEN st
    ELSE LET b == Head(cs) + 1
         IN  constructNodeConnections(
                IF st.allNodes[b].id \in st.allNodes[a].connections THEN st
                ELSE Connect(st, a, b),
                a, Tail(cs))

\* loadSubCircuit(data, scope): the element takes the saved nodes as its own
loadSubCircuit(d, nodes) ==
    LET own == Range(d.inputNodes) \cup Range(d.outputNodes)
    IN  [obj |-> [objectType |-> "SubCircuit", id |-> d.id,
                  nodes |-> [inputNodes |-> [k \in 1..Len(d.inputNodes) |->
                                                nodes[d.inputNodes[k] + 1].id],
                             outputNodes |-> [k \in 1..Len(d.outputNodes) |->
                                                nodes[d.outputNodes[k] + 1].id]],
                  layoutProperties |-> <<>>],
         allNodes |-> [k \in 1..Len(nodes) |->
                          IF (k - 1) \in own THEN [nodes[k] EXCEPT !.parentCE = FALSE]
                          ELSE nodes[k]]]

\* Mutant: the cleanup of nodes comes before the wires are refreshed
PhasesCleanupEarly ==
    <<"nodes", "connections", "modules", "removeBugNodes", "wires", "restore",
      "layout", "titleEnabled", "done">>

\* The statements of loadScope in the order of the source text
Phases ==
    <<"nodes", "connections", "modules", "wires", "removeBugNodes", "restore",
      "layout", "titleEnabled", "done">>

\* The statement after the one at pc
NextPhase(pc) ==
    Phases[1 + CHOOSE k \in 1..(Len(Phases) - 1) : Phases[k] = pc]

\* Assignments to the arrays scope and newScope share (newScope is a shallow
\* copy): allNodes, wires and the element lists change in both objects
Shared(field, val) ==
    /\ scopeList' = [scopeList EXCEPT ![data.id][field] = val]
    /\ newScope' = [newScope EXCEPT ![field] = val]

Step(pc, i, j, fn, arg) ==
    ld' = [ld EXCEPT !.pc = pc, !.i = i, !.j = j, !.calls = Append(@, Call(fn, arg))]

\* Lines 104-108: the copy, with the document's restrictedCircuitElementsUsed
BeginLoadScopeAct ==
    /\ ld.pc = "start"
    /\ newScope' = [scopeList[data.id] EXCEPT
                       !.restrictedCircuitElementsUsed = data.restrictedCircuitElementsUsed]
    /\ ld' = [ld EXCEPT !.pc = "nodes"]
    /\ UNCHANGED <<scopeList, globalScope, folderVars, rbnVars, data>>

\* Line 111, one node
LoadNodeAct ==
    /\ ld.pc = "nodes"
    /\ ld.i < Len(data.allNodes)
    /\ Shared("allNodes", loadNode(newScope.allNodes, data.allNodes[ld.i + 1]))
    /\ Step("nodes", ld.i + 1, 0, "loadNode", "")
    /\ UNCHANGED <<globalScope, folderVars, rbnVars, data>>

\* Line 114, one node
ConnectNodeAct ==
    /\ ld.pc = "connections"
    /\ ld.i < Len(data.allNodes)
    /\ LET r == constructNodeConnections(
                    [allNodes |-> newScope.allNodes, wires |-> newScope.wires],
                    ld.i + 1, SortedSeq(data.allNodes[ld.i + 1].connections))
       IN  /\ scopeList' = [scopeList EXCEPT ![data.id].allNodes = r.allNodes,
                                             ![data.id].wires = r.wires]
           /\ newScope' = [newScope EXCEPT !.allNodes = r.allNodes, !.wires = r.wires]
    /\ Step("connections", ld.i + 1, 0, "constructNodeConnections", "")
    /\ UNCHANGED <<globalScope, folderVars, rbnVars, data>>

\* Lines 116-128, one record of data[ML[i]]; a tag that names no element
\* type, or a subcircuit whose scope is not loaded, makes the constructor throw
LoadRecordAct ==
    /\ ld.pc = "modules"
    /\ ld.i < Len(moduleList)
    /\ moduleList[ld.i + 1] \in DOMAIN data
    /\ ld.j < Len(data[moduleList[ld.i + 1]])
    /\ LET t == moduleList[ld.i + 1]
           d == data[t][ld.j + 1]
           isSub == t = "SubCircuit"
           ok == IF isSub THEN d.id \in DOMAIN scopeList
                 ELSE rectifyObjectType(d.objectType) \in ModuleTypes
           r == IF isSub THEN loadSubCircuit(d, newScope.allNodes)
                ELSE loadModule(d, newScope.allNodes)
           fn == IF isSub THEN "loadSubCircuit" ELSE "loadModule"
       IN  IF ok
           THEN /\ scopeList' = [scopeList EXCEPT
                                    ![data.id].allNodes = r.allNodes,
                                    ![data.id][r.obj.objectType] = Append(@, r.obj)]
                /\ newScope' = [newScope EXCEPT
                                    !.allNodes = r.allNodes,
                                    ![r.obj.objectType] = Append(@, r.obj)]
                /\ Step("modules", ld.i, ld.j + 1, fn, t)
           ELSE /\ Step("threw", ld.i, ld.j, fn, t)
                /\ UNCHANGED <<scopeList, newScope>>
    /\ UNCHANGED <<globalScope, folderVars, rbnVars, data>>

\* Lines 116-117: on to the next type of moduleList
NextTypeAct ==
    /\ ld.pc = "modules"
    /\ ld.i < Len(moduleList)
    /\ IF moduleList[ld.i + 1] \in DOMAIN data
       THEN ld.j >= Len(data[moduleList[ld.i + 1]])
       ELSE TRUE
    /\ ld' = [ld EXCEPT !.i = @ + 1, !.j = 0]
    /\ UNCHANGED <<scopeList, globalScope, folderVars, rbnVars, data, newScope>>

\* Lines 130-132, one wire
UpdateWireAct ==
    /\ ld.pc = "wires"
    /\ ld.i < Len(newScope.wires)
    /\ Shared("wires", [newScope.wires EXCEPT ![ld.i + 1].updated = TRUE])
    /\ Step("wires", ld.i + 1, 0, "updateData", "")
    /\ UNCHANGED <<globalScope, folderVars, rbnVars, data>>

\* The end of one of the loops
LoopExitAct ==
    /\ \/ ld.pc \in {"nodes", "connections"} /\ ld.i >= Len(data.allNodes)
       \/ ld.pc = "modules" /\ ld.i >= Len(moduleList)
       \/ ld.pc = "wires" /\ ld.i >= Len(newScope.wires)
    /\ ld' = [ld EXCEPT !.pc = NextPhase(ld.pc), !.i = 0, !.j = 0]
    /\ UNCHANGED <<scopeList, globalScope, folderVars, rbnVars, data, newScope>>

\* Line 133
RemoveBugNodesAct ==
    /\ ld.pc = "removeBugNodes"
    /\ Shared("allNodes", removeBugNodes(newScope.allNodes))
    /\ Step(NextPhase(ld.pc), 0, 0, "removeBugNodes", "")
    /\ UNCHANGED <<globalScope, folderVars, rbnVars, data>>

\* Lines 136-149
RestoreAct ==
    /\ ld.pc = "restore"
    /\ newScope' = [newScope EXCEPT
            !.verilogMetadata = IF data.verilogMetadata # <<>>
                                THEN data.verilogMetadata[1] ELSE @,
            !.testbenchData = IF data.testbenchData # <<>> THEN data.testbenchData ELSE @]
    /\ Step(NextPhase(ld.pc), 0, 0, "restore", "")
    /\ UNCHANGED <<scopeList, globalScope, folderVars, rbnVars, data>>

\* Lines 152-181; line 153 makes newScope.layout the document's own layout
\* object, line 162 a new one
LayoutAct ==
    /\ ld.pc = "layout"
    /\ IF data.layout # <<>>
       THEN /\ newScope' = [newScope EXCEPT !.layout = data.layout[1]]
            /\ nextId' = nextId
       ELSE LET ins == newScope.Input
                outs == newScope.Output
                newLayout == SynthesizedLayout(Len(ins), Len(outs))
            IN  /\ newScope' = [newScope EXCEPT
                        !.layout = newLayout,
                        !.Input = WithLayoutProperties(ins, newLayout, 0, nextId),
                        !.Output = WithLayoutProperties(outs, newLayout, newLayout.width,
                                                        nextId + Len(ins))]
                /\ nextId' = nextId + Len(ins) + Len(outs)
    /\ ld' = [ld EXCEPT !.pc = NextPhase(ld.pc), !.i = 0, !.j = 0,
                        !.calls = Append(@, Call("layout", "")),
                        !.layoutObject = IF data.layout # <<>> THEN "data" ELSE "new"]
    /\ UNCHANGED <<scopeList, globalScope, folderPanelContainer, folders, subcircuitMap,
                   tree, fx, drag, rbnVars, data>>

\* Mutant: the flag is written into the layout object newScope refers to
AssignTitleEnabledInPlace(ns, d, layoutObject) ==
    [newScope |-> [ns EXCEPT !.layout = WithTitleEnabled(@)],
     data |-> IF layoutObject = "data"
              THEN [d EXCEPT !.layout = <<WithTitleEnabled(@[1])>>] ELSE d,
     layoutObject |-> layoutObject]

\* Lines 183-185 on newScope, on the document d and on which object
\* newScope.layout is: a layout without the flag is replaced by a new object,
\* the spread copy with titleEnabled, and the object it copies is not written
AssignTitleEnabled(ns, d, layoutObject) ==
    [newScope |-> [ns EXCEPT !.layout = WithTitleEnabled(@)],
     data |-> d,
     layoutObject |-> IF "titleEnabled" \in DOMAIN ns.layout THEN layoutObject ELSE "new"]

\* Lines 183-187
TitleEnabledAct ==
    /\ ld.pc = "titleEnabled"
    /\ LET r == AssignTitleEnabled(newScope, data, ld.layoutObject)
       IN  /\ newScope' = r.newScope
           /\ data' = r.data
           /\ ld' = [ld EXCEPT !.pc = NextPhase(ld.pc), !.i = 0, !.j = 0,
                               !.calls = Append(@, Call("titleEnabled", "")),
                               !.layoutObject = r.layoutObject]
    /\ UNCHANGED <<scopeList, globalScope, folderVars, rbnVars>>

\* load 220-223 once more on the same document: newCircuit registers a new
\* empty scope under the document's id and loadScope starts again; the
\* object the first call returned is kept for comparison
ReloadAct ==
    /\ ld.pc = "done"
    /\ ld.first = <<>>
    /\ scopeList' = [scopeList EXCEPT
                        ![data.id] = newCircuit("Main", data.id, data.verilogMetadata # <<>>,
                                                data.verilogMetadata # <<>>)]
    /\ ld' = [pc |-> "start", i |-> 0, j |-> 0, calls |-> <<>>,
              layoutObject |-> "scope", first |-> <<newScope>>]
    /\ newScope' = NoScope
    /\ UNCHANGED <<globalScope, folderVars, rbnVars, data>>

\* ld.layoutObject tells which object newScope.layout is: the scope's, the
\* document's or a new one. ld.first holds what the first call returned.
\* loadScope(scope, data) is called as load calls it: scope is the empty
\* scope newCircuit has just registered; the scope a SubCircuit record names
\* is loaded or not; verilogMetadata and restrictedCircuitElementsUsed are
\* both saved or both absent
InitScope ==
    /\ \E nIn \in 0..MaxPorts, nOut \in 0..MaxPorts,
          gate \in BOOLEAN, sub \in BOOLEAN, stray \in BOOLEAN, shared \in BOOLEAN,
          l \in DocLayouts, v \in DocVerilogMetadatas, r \in DocRestricted,
          child \in BOOLEAN :
            /\ (v = <<>>) <=> (r = <<>>)
            /\ shared => gate
            /\ ~child => sub
            /\ data = ScopeDocument(ScopeId,
                                    CircuitDocument(nIn, nOut, gate, sub, stray, shared),
                                    l, v, r)
            /\ scopeList =
                 LET this == MapSet(EmptyMap, ScopeId,
                                    newCircuit("Main", ScopeId, v # <<>>, v # <<>>))
                 IN  IF child
                     THEN MapSet(this, OtherScopeId,
                                 newCircuit("Child", OtherScopeId, FALSE, FALSE))
                     ELSE this
    /\ ld = [pc |-> "start", i |-> 0, j |-> 0, calls |-> <<>>,
             layoutObject |-> "scope", first |-> <<>>]
    /\ newScope = NoScope
    /\ globalScope = Undefined
    /\ folderPanelContainer = FALSE
    /\ folders = <<>>
    /\ subcircuitMap = EmptyMap
    /\ nextId = 1
    /\ tree = NoTree
    /\ fx = NoFx
    /\ drag = NoDrag
    /\ allNodes = <<>>
    /\ rbn = IdleRbn

NextScope ==
    \/ BeginLoadScopeAct
    \/ LoadNodeAct
    \/ ConnectNodeAct
    \/ LoadRecordAct
    \/ NextTypeAct
    \/ UpdateWireAct
    \/ LoopExitAct
    \/ RemoveBugNodesAct
    \/ RestoreAct
    \/ LayoutAct
    \/ TitleEnabledAct
    \/ ReloadAct

SpecScope == InitScope /\ [][NextScope]_vars

\* The step of loadScope a call belongs to, numbered as in the contract
Rank(fn) ==
    CASE fn = "loadNode" -> 1
      [] fn = "constructNodeConnections" -> 2
      [] fn \in {"loadModule", "loadSubCircuit"} -> 3
      [] fn = "updateData" -> 4
      [] fn = "removeBugNodes" -> 5
      [] fn = "restore" -> 6
      [] fn = "layout" -> 7
      [] fn = "titleEnabled" -> 8

\* The position of a type in moduleList
TypeIndex(t) == CHOOSE k \in 1..Len(moduleList) : moduleList[k] = t

\* The number of element records of the document
RECURSIVE RecordCount(_, _)
RecordCount(d, k) ==
    IF k > Len(moduleList) THEN 0
    ELSE (IF moduleList[k] \in DOMAIN d THEN Len(d[moduleList[k]]) ELSE 0)
         + RecordCount(d, k + 1)

\* C13: loadScope does its steps in order, each complete before the next
\* begins: all nodes, all connections, all modules (types in moduleList
\* order, SubCircuit records through loadSubCircuit only, the others
\* through loadModule only), every wire's updateData, removeBugNodes, the
\* verilog/testbench restore, the layout, the titleEnabled default.
C13_LoadScopeStepOrder ==
    LET c == ld.calls
        Made(fns) == Cardinality({k \in 1..Len(c) : c[k].fn \in fns})
        Begun(r) == \E k \in 1..Len(c) : Rank(c[k].fn) >= r
    IN  /\ \A a, b \in 1..Len(c) : a < b => Rank(c[a].fn) <= Rank(c[b].fn)
        /\ (Begun(2) \/ ld.pc \notin {"start", "nodes"}) =>
              /\ Made({"loadNode"}) = Len(data.allNodes)
              /\ ~Begun(5) => Len(newScope.allNodes) >= Len(data.allNodes)
        /\ (Begun(3) \/ ld.pc \notin {"start", "nodes", "connections"}) =>
              /\ Made({"constructNodeConnections"}) = Len(data.allNodes)
              /\ ~Begun(5) =>
                    \A k \in 1..Len(data.allNodes) :
                        \A n \in data.allNodes[k].connections :
                            (n + 1) \in newScope.allNodes[k].connections
        /\ Begun(4) => Made({"loadModule", "loadSubCircuit"}) = RecordCount(data, 1)
        /\ Begun(5) =>
              /\ Made({"updateData"}) = Len(newScope.wires)
              /\ \A k \in 1..Len(newScope.wires) : newScope.wires[k].updated
        /\ \A a, b \in 1..Len(c) :
              (a < b /\ Rank(c[a].fn) = 3 /\ Rank(c[b].fn) = 3) =>
                  TypeIndex(c[a].arg) <= TypeIndex(c[b].arg)
        /\ \A k \in 1..Len(c) :
              Rank(c[k].fn) = 3 =>
                  (c[k].fn = "loadSubCircuit" <=> c[k].arg = "SubCircuit")
        /\ ld.pc = "done" =>
              /\ Len(c) >= 4
              /\ [k \in 1..4 |-> c[Len(c) - 4 + k].fn]
                    = <<"removeBugNodes", "restore", "layout", "titleEnabled">>
              /\ Made({"removeBugNodes"}) = 1 /\ Made({"restore"}) = 1
              /\ Made({"layout"}) = 1 /\ Made({"titleEnabled"}) = 1

C13_Witness ==
    /\ ld.pc = "done"
    /\ Len(newScope.wires) >= 2
    /\ Len(newScope.AndGate) = 1 /\ Len(newScope.SubCircuit) = 1
    /\ Len(newScope.Input) = 2

\* C14: for a scope document without layout the synthesized layout has width
\* 100, height max(#Input, #Output) * 20 + 20, title_x 50 and title_y 13,
\* whatever else the document holds; one input and one output give height 40.
C14_SynthesizedLayoutFormula ==
    (ld.pc \in {"titleEnabled", "done"} /\ data.layout = <<>>) =>
        LET nI == Len(data.Input)
            nO == Len(data.Output)
            L == newScope.layout
        IN  /\ L.width = 100
            /\ L.height = (IF nI >= nO THEN nI ELSE nO) * 20 + 20
            /\ L.title_x = 50
            /\ L.title_y = 13
            /\ (nI = 1 /\ nO = 1) => L.height = 40

C14_Witness ==
    /\ ld.pc = "done" /\ data.layout = <<>>
    /\ Len(data.Input) = 1 /\ Len(data.Output) = 1
    /\ newScope.layout.height = 40
    /\ "AndGate" \in DOMAIN data

\* The ports of one side have x as abscissa and are laid out around the
\* middle of a layout of height h, 20 apart, inside the layout
PortsLaidOut(ports, x, h) ==
    LET n == Len(ports)
        y(k) == ports[k].layoutProperties[1].y
    IN  /\ \A k \in 1..n :
              /\ ports[k].layoutProperties # <<>>
              /\ ports[k].layoutProperties[1].x = x
              /\ y(k) = (h \div 2) - 10 * n + 20 * (k - 1) + 10
              /\ 0 < y(k) /\ y(k) < h
        /\ \A k \in 1..(n - 1) : y(k + 1) - y(k) = 20
        /\ n >= 1 => y(1) + y(n) = h

\* C15: in the synthesized-layout branch every Input has x = 0 and every
\* Output x = layout.width; the i-th of n ports of a side has
\* y = height/2 - 10n + 20i + 10, so that neighbours are 20 apart, the side
\* is centred on height/2 and every y is strictly between 0 and height.
C15_PortCoordinates ==
    (ld.pc \in {"titleEnabled", "done"} /\ data.layout = <<>>) =>
        /\ Len(newScope.Input) = Len(data.Input)
        /\ Len(newScope.Output) = Len(data.Output)
        /\ PortsLaidOut(newScope.Input, 0, newScope.layout.height)
        /\ PortsLaidOut(newScope.Output, newScope.layout.width, newScope.layout.height)

C15_Witness ==
    /\ ld.pc = "done" /\ data.layout = <<>>
    /\ Len(newScope.Input) = MaxPorts /\ Len(newScope.Output) = 1
    /\ newScope.Input[MaxPorts].layoutProperties # <<>>

\* C16: after loadScope the layout's titleEnabled is true when the layout,
\* supplied or synthesized, had none, and is the document's value, an
\* explicit false included, when the document's layout had one.
C16_TitleEnabledDefault ==
    ld.pc = "done" =>
        /\ "titleEnabled" \in DOMAIN newScope.layout
        /\ IF data.layout # <<>> /\ "titleEnabled" \in DOMAIN data.layout[1]
           THEN newScope.layout.titleEnabled = data.layout[1].titleEnabled
           ELSE newScope.layout.titleEnabled = TRUE
        /\ data.layout # <<>> =>
              \A f \in DOMAIN data.layout[1] : newScope.layout[f] = data.layout[1][f]

C16_Witness ==
    /\ ld.pc = "done" /\ data.layout # <<>>
    /\ "titleEnabled" \in DOMAIN data.layout[1]
    /\ newScope.layout.titleEnabled = FALSE

\* The records loadModule handles, as <<type, position>>
LoadedRecords ==
    {<<t, j>> \in (Range(moduleList) \ {"SubCircuit"}) \X (1..MaxPorts) :
        t \in DOMAIN data /\ j <= Len(data[t])}

\* The places where a record names a saved node: <<type, position,
\* property, position in the property>>
SavedReferences ==
    {x \in (Range(moduleList) \X (1..MaxPorts) \X Range(PropertyOrder) \X (1..2)) :
        /\ <<x[1], x[2]>> \in LoadedRecords
        /\ data[x[1]][x[2]].nodes # <<>>
        /\ x[3] \in DOMAIN data[x[1]][x[2]].nodes[1]
        /\ x[4] <= Len(data[x[1]][x[2]].nodes[1][x[3]])}

SavedIndex(x) == data[x[1]][x[2]].nodes[1][x[3]][x[4]]
HeldNode(x) == newScope[x[1]][x[2]].nodes[x[3]][x[4]]

C34_LayoutKeepsElementObjects ==
    (ld.pc \in {"titleEnabled", "done"} /\ data.layout = <<>>) =>
        /\ newScope.Input = scopeList[data.id].Input
        /\ newScope.Output = scopeList[data.id].Output
        /\ \A k \in 1..Len(scopeList[data.id].Input) :
              scopeList[data.id].Input[k].layoutProperties # <<>>
        /\ \A k \in 1..Len(scopeList[data.id].Output) :
              scopeList[data.id].Output[k].layoutProperties # <<>>

\* A list of elements without the ids generateId gave their layoutProperties
WithoutLayoutIds(elements) ==
    [k \in 1..Len(elements) |->
        [elements[k] EXCEPT !.layoutProperties =
            IF @ = <<>> THEN <<>> ELSE <<[x |-> @[1].x, y |-> @[1].y]>>]]

\* A reconstructed scope without the ids of its ports' layoutProperties
WithoutGeneratedIds(scope) ==
    [scope EXCEPT !.Input = WithoutLayoutIds(@), !.Output = WithoutLayoutIds(@)]

\* The second reconstruction from the document has returned
ReconstructedTwice == ld.pc = "done" /\ ld.first # <<>>

\* C35 as stated: loadScope leaves the document as it was, and the second
\* reconstruction from the same document returns the same result as the
\* first, the ids of the synthesized layoutProperties included.
C35_SameResultTwice == ReconstructedTwice => newScope = ld.first[1]

\* C35: no step of loadScope changes the scope document (layout and the
\* absence of titleEnabled in it, allNodes, the element records), and the
\* second reconstruction from the same document returns the same result as
\* the first except for the ids generateId gives the layoutProperties of a
\* document without layout.
C35_DocumentUnchanged ==
    /\ [][data' = data]_vars
    /\ [](ReconstructedTwice =>
            WithoutGeneratedIds(newScope) = WithoutGeneratedIds(ld.first[1]))

C35_Witness ==
    /\ ReconstructedTwice
    /\ data.layout # <<>> /\ "titleEnabled" \notin DOMAIN data.layout[1]
    /\ newScope.layout.titleEnabled
    /\ Len(data.Input) = MaxPorts
    /\ "AndGate" \in DOMAIN data

\* A document without layout reconstructed twice: the ports' ids differ
C35_WitnessFreshIds ==
    /\ ReconstructedTwice
    /\ data.layout = <<>> /\ Len(data.Input) >= 1
    /\ newScope.Input[1].layoutProperties # ld.first[1].Input[1].layoutProperties
    /\ WithoutGeneratedIds(newScope) = WithoutGeneratedIds(ld.first[1])

====
